---- MODULE Spec2Model ----
(***************************************************************************)
(* Model of the caching subsystem of express-typescript-boiler:            *)
(*   - CacheKeyGenerator / CacheKey   (utils/cache-key.util.ts)            *)
(*   - CacheService                   (services/cache.service.ts)          *)
(*   - UserRepository                 (repositories/user.repository.ts)    *)
(* Strings are sequences of one-character strings, so that the joining of  *)
(* key segments with ":" and the glob matching of KEYS are computed on     *)
(* characters, as the code computes them.                                  *)
(***************************************************************************)
EXTENDS Integers, Sequences, FiniteSets, TLC

VARIABLES
    desc1, key1,      \* the latest key derivation: its descriptor and the key returned
    desc2, key2,      \* the key derivation before it
    db,               \* the store of record: the users table
    redis,            \* the cache backend's keyspace: key -> [data, ttl]
    client,           \* CacheService.client: "null" or "client"
    isConnected,      \* CacheService.isConnected
    procs,            \* the repository calls in progress, one per caller
    lastCall,         \* the latest CacheService call as its caller saw it
    nops,             \* the number of repository calls started
    conn              \* the connection: its configuration, the backend, the clients
                      \* made and the reconnect loop

keyVars == <<desc1, key1, desc2, key2>>
cacheVars == <<redis, client, isConnected, lastCall, conn>>
repoVars == <<db, procs, nops>>
vars == <<desc1, key1, desc2, key2, db, redis, client, isConnected, procs, lastCall,
         nops, conn>>

(***************************************************************************)
(* Strings                                                                 *)
(***************************************************************************)

\* The characters the model's strings are made of, in UTF-16 code unit order
\* (the order of Array.prototype.sort without a comparator).
Alphabet == <<" ", "*", "0", "1", "2", "3", "4", "5", "6", "7", "8", "9", ":", "?", "A",
              "_", "a", "b", "c", "d", "e", "f", "g", "h", "i", "j", "k", "l", "m", "n",
              "o", "p", "q", "r", "s", "t", "u", "v", "w", "x", "y", "z">>

CharCode(c) == CHOOSE i \in 1..Len(Alphabet) : Alphabet[i] = c

\* s < t in the order of the default sort: by code units, a proper prefix first.
RECURSIVE StrLess(_, _)
StrLess(s, t) ==
    IF t = <<>> THEN FALSE
    ELSE IF s = <<>> THEN TRUE
    ELSE IF Head(s) = Head(t) THEN StrLess(Tail(s), Tail(t))
    ELSE CharCode(Head(s)) < CharCode(Head(t))

\* Array.prototype.join
RECURSIVE Join(_, _)
Join(parts, sep) ==
    IF parts = <<>> THEN <<>>
    ELSE IF Len(parts) = 1 THEN parts[1]
    ELSE parts[1] \o sep \o Join(Tail(parts), sep)

Colon == <<":">>

Digits == <<"0", "1", "2", "3", "4", "5", "6", "7", "8", "9">>

\* Number.prototype.toString of a natural number
RECURSIVE NumToString(_)
NumToString(n) ==
    IF n < 10 THEN <<Digits[n + 1]>>
    ELSE NumToString(n \div 10) \o <<Digits[(n % 10) + 1]>>

\* String.prototype.toLowerCase, on the model's alphabet
ToLowerCase(s) == [i \in 1..Len(s) |-> IF s[i] = "A" THEN "a" ELSE s[i]]

\* String.prototype.trim
RECURSIVE TrimLeft(_)
TrimLeft(s) == IF s # <<>> /\ Head(s) = " " THEN TrimLeft(Tail(s)) ELSE s
RECURSIVE TrimRight(_)
TrimRight(s) ==
    IF s # <<>> /\ s[Len(s)] = " " THEN TrimRight(SubSeq(s, 1, Len(s) - 1)) ELSE s
Trim(s) == TrimRight(TrimLeft(s))

\* replace(/\s+/g, '_'): every maximal run of white space becomes one "_"
RECURSIVE ReplaceSpaces(_)
ReplaceSpaces(s) ==
    IF s = <<>> THEN <<>>
    ELSE IF Head(s) = " " THEN <<"_">> \o ReplaceSpaces(TrimLeft(s))
    ELSE <<Head(s)>> \o ReplaceSpaces(Tail(s))

(***************************************************************************)
(* Key derivation: CacheKeyGenerator                                       *)
(***************************************************************************)

\* An optional number (page, limit): Undefined, or a natural number.
Undefined == -1
\* JavaScript truthiness of an optional number: undefined and 0 are falsy.
Truthy(n) == n > 0

\* pagination?: PaginationParams. An omitted pagination reads as both fields undefined.
NoPagination == [page |-> Undefined, limit |-> Undefined]

\* filters?: Record<string, any>: omitted, or the entries in insertion order.
\* A value is a string, or null/undefined (isNull).
NoFilters == [defined |-> FALSE, entries |-> <<>>]
Filters(entries) == [defined |-> TRUE, entries |-> entries]
FilterStr(k, v) == [k |-> k, isNull |-> FALSE, v |-> v]
FilterNull(k) == [k |-> k, isNull |-> TRUE, v |-> <<>>]

\* Object.keys(filters), in insertion order
ObjectKeys(filters) == [i \in 1..Len(filters.entries) |-> filters.entries[i].k]

\* filters[key]
FilterEntry(filters, key) ==
    filters.entries[CHOOSE i \in 1..Len(filters.entries) : filters.entries[i].k = key]

\* Array.prototype.sort() of strings
RECURSIVE SortStrings(_)
SortStrings(keys) ==
    IF keys = <<>> THEN <<>>
    ELSE LET m == CHOOSE i \in 1..Len(keys) :
                      \A j \in 1..Len(keys) : ~StrLess(keys[j], keys[i])
         IN <<keys[m]>> \o SortStrings([i \in 1..(Len(keys) - 1) |->
                                           IF i < m THEN keys[i] ELSE keys[i + 1]])

\* The filter keys in insertion order, as a forgotten sort() would leave them.
FilterKeysUnsorted(filters) == ObjectKeys(filters)

\* const filterKeys = Object.keys(filters).sort()
FilterKeys(filters) == SortStrings(ObjectKeys(filters))

\* for (const key of filterKeys) if (filters[key] !== undefined && !== null)
\*     parts.push(key, String(filters[key]))
RECURSIVE FilterPartsOf(_, _)
FilterPartsOf(filters, keys) ==
    IF keys = <<>> THEN <<>>
    ELSE LET e == FilterEntry(filters, Head(keys))
         IN (IF e.isNull THEN <<>> ELSE <<e.k, e.v>>) \o FilterPartsOf(filters, Tail(keys))

\* if (filters && Object.keys(filters).length > 0) { ... }
FilterParts(filters) ==
    IF filters.defined /\ Len(filters.entries) > 0
    THEN FilterPartsOf(filters, FilterKeys(filters))
    ELSE <<>>

S_page == <<"p", "a", "g", "e">>
S_limit == <<"l", "i", "m", "i", "t">>
S_all == <<"a", "l", "l">>
S_list == <<"l", "i", "s", "t">>
S_search == <<"s", "e", "a", "r", "c", "h">>
S_count == <<"c", "o", "u", "n", "t">>

\* CacheKey.byId
entityById(entityType, id) == entityType \o Colon \o id

\* CacheKey.byField
entityByField(entityType, field, value) == entityType \o Colon \o field \o Colon \o value

\* CacheKey.list
entityList(entityType, pagination, filters) ==
    LET pg == IF Truthy(pagination.page) /\ Truthy(pagination.limit)
              THEN <<S_page, NumToString(pagination.page),
                     S_limit, NumToString(pagination.limit)>>
              ELSE IF Truthy(pagination.page) \/ Truthy(pagination.limit)
              THEN (IF Truthy(pagination.page)
                    THEN <<S_page, NumToString(pagination.page)>> ELSE <<>>)
                   \o (IF Truthy(pagination.limit)
                       THEN <<S_limit, NumToString(pagination.limit)>> ELSE <<>>)
              ELSE <<S_all>>
    IN Join(<<entityType, S_list>> \o pg \o FilterParts(filters), Colon)

\* CacheKeyGenerator.entityAggregation; hasField: whether field is given and not ""
entityAggregation(entityType, aggregationType, hasField, field, filters) ==
    Join(<<entityType, aggregationType>>
         \o (IF hasField THEN <<field>> ELSE <<>>)
         \o FilterParts(filters), Colon)

\* CacheKey.count
count(entityType, filters) == entityAggregation(entityType, S_count, FALSE, <<>>, filters)

\* CacheKey.search
entitySearch(entityType, searchQuery, pagination, filters) ==
    LET normalizedQuery == ReplaceSpaces(Trim(ToLowerCase(searchQuery)))
        pg == IF Truthy(pagination.page) /\ Truthy(pagination.limit)
              THEN <<S_page, NumToString(pagination.page),
                     S_limit, NumToString(pagination.limit)>>
              ELSE <<>>
    IN Join(<<entityType, S_search, normalizedQuery>> \o pg \o FilterParts(filters), Colon)

\* A pattern without the separator after the entity type
entityPatternLoose(entityType, pattern) == entityType \o <<"*">>

\* CacheKey.pattern
entityPattern(entityType, pattern) == entityType \o Colon \o pattern

(***************************************************************************)
(* Values and their JSON form                                              *)
(***************************************************************************)

Null == [t |-> "null"]
UserVal(u) == [t |-> "user", u |-> u]
ListVal(l) == [t |-> "list", l |-> l]

\* A row as JSON.stringify writes it: the Date created_at becomes its ISO string.
JsonOfRow(u) == [u EXCEPT !.created_at = <<"Str", u.created_at[2]>>]

\* JSON.stringify(value): the text, held as the value it denotes
Stringify(v) ==
    [json |-> IF v.t = "user" THEN UserVal(JsonOfRow(v.u))
              ELSE IF v.t = "list" THEN ListVal([i \in 1..Len(v.l) |-> JsonOfRow(v.l[i])])
              ELSE v]

\* JSON.parse(data): strings stay strings, no Date is revived
Parse(data) == data.json

(***************************************************************************)
(* CacheService                                                            *)
(***************************************************************************)

\* this.keyPrefix = env.REDIS_KEY_PREFIX || env.APP_NAME || 'default'
keyPrefix == <<"a", "p", "p">>

\* env.CACHE_TTL_SECONDS
CACHE_TTL_SECONDS == 3600

\* A key sent as the caller gave it
getPrefixedKeyBare(key) == key

\* private getPrefixedKey(key)
getPrefixedKey(key) == keyPrefix \o Colon \o key

\* isReady()
isReady == isConnected /\ client # "null"

\* A guard that looks at the client alone
NotAvailableNoClient == client = "null"

\* if (!this.client || !this.isConnected) at the head of every operation
NotAvailable == client = "null" \/ ~isConnected

\* KEYS: Redis glob matching, with * (any run of characters) and ? (one character)
RECURSIVE GlobMatch(_, _)
GlobMatch(pattern, key) ==
    IF pattern = <<>> THEN key = <<>>
    ELSE IF Head(pattern) = "*"
         THEN \/ GlobMatch(Tail(pattern), key)
              \/ (key # <<>> /\ GlobMatch(pattern, Tail(key)))
    ELSE /\ key # <<>>
         /\ (Head(pattern) = "?" \/ Head(pattern) = Head(key))
         /\ GlobMatch(Tail(pattern), Tail(key))

\* No call has been made yet.
NoCall == [op |-> "none", available |-> FALSE, fault |-> "ok", ret |-> Null,
           called |-> FALSE, raised |-> FALSE, changed |-> FALSE]

\* The outcome of a CacheService operation: what it returns, the keyspace it leaves,
\* whether it sent a command to the backend, whether an exception left it.
Outcome(ret, store, called, raised) ==
    [ret |-> ret, store |-> store, called |-> called, raised |-> raised]

\* The ways a backend call can go: "throw" is a rejected command (time-out, closed
\* socket, error reply); "badjson" a stored string JSON.parse rejects;
\* "unserializable" a value JSON.stringify rejects.
GetFaults == {"ok", "throw", "badjson"}
SetFaults == {"ok", "throw", "unserializable"}
CallFaults == {"ok", "throw"}

\* A body without its try/catch: the exception leaves the operation.
NoCatch(out, default) == out

\* try { ... } catch (error) { logger.error(...); return default; }
TryCatch(out, default) ==
    IF out.raised THEN Outcome(default, out.store, out.called, FALSE) ELSE out

Remove(store, keys) == [k \in DOMAIN store \ keys |-> store[k]]

\* get<T>(key)
get(key, fault) ==
    IF NotAvailable THEN Outcome(Null, redis, FALSE, FALSE)
    ELSE LET prefixedKey == getPrefixedKey(key)
         IN TryCatch(IF fault = "throw" THEN Outcome(Null, redis, TRUE, TRUE)
                     ELSE IF prefixedKey \in DOMAIN redis
                     THEN IF fault = "badjson" THEN Outcome(Null, redis, TRUE, TRUE)
                          ELSE Outcome(Parse(redis[prefixedKey].data), redis, TRUE, FALSE)
                     ELSE Outcome(Null, redis, TRUE, FALSE),
                     Null)

\* A set that writes without an expiry when it is given none
setNoDefault(key, value, ttlSeconds, fault) ==
    IF NotAvailable THEN Outcome(FALSE, redis, FALSE, FALSE)
    ELSE TryCatch(IF fault = "unserializable" THEN Outcome(FALSE, redis, FALSE, TRUE)
                  ELSE IF fault = "throw" THEN Outcome(FALSE, redis, TRUE, TRUE)
                  ELSE Outcome(TRUE,
                               [k \in DOMAIN redis \cup {getPrefixedKey(key)} |->
                                   IF k = getPrefixedKey(key)
                                   THEN [data |-> Stringify(value), ttl |-> 0]
                                   ELSE redis[k]],
                               TRUE, FALSE),
                  FALSE)

\* set(key, value, ttlSeconds?)
set(key, value, ttlSeconds, fault) ==
    IF NotAvailable THEN Outcome(FALSE, redis, FALSE, FALSE)
    ELSE LET ttl == IF ttlSeconds > 0 THEN ttlSeconds ELSE CACHE_TTL_SECONDS
             prefixedKey == getPrefixedKey(key)
         IN TryCatch(IF fault = "unserializable" THEN Outcome(FALSE, redis, FALSE, TRUE)
                     ELSE IF fault = "throw" THEN Outcome(FALSE, redis, TRUE, TRUE)
                     ELSE Outcome(TRUE,
                                  [k \in DOMAIN redis \cup {prefixedKey} |->
                                      IF k = prefixedKey
                                      THEN [data |-> Stringify(value), ttl |-> ttl]
                                      ELSE redis[k]],
                                  TRUE, FALSE),
                     FALSE)

\* delete(key)
delete(key, fault) ==
    IF NotAvailable THEN Outcome(FALSE, redis, FALSE, FALSE)
    ELSE LET prefixedKey == getPrefixedKey(key)
         IN TryCatch(IF fault = "throw" THEN Outcome(FALSE, redis, TRUE, TRUE)
                     ELSE Outcome(prefixedKey \in DOMAIN redis,
                                  Remove(redis, {prefixedKey}), TRUE, FALSE),
                     FALSE)

\* deletePattern(pattern), up to the reply of KEYS: ret is the keys found
deletePatternKeys(pattern, fault) ==
    IF NotAvailable THEN Outcome({}, redis, FALSE, FALSE)
    ELSE LET prefixedPattern == getPrefixedKey(pattern)
         IN TryCatch(IF fault = "throw" THEN Outcome({}, redis, TRUE, TRUE)
                     ELSE Outcome({k \in DOMAIN redis : GlobMatch(prefixedPattern, k)},
                                  redis, TRUE, FALSE),
                     {})

\* A deletePattern that returns the number of keys KEYS found
deletePatternDelFound(keys, fault) ==
    TryCatch(IF fault = "throw" THEN Outcome(0, redis, TRUE, TRUE)
             ELSE Outcome(Cardinality(keys), Remove(redis, keys), TRUE, FALSE),
             0)

\* deletePattern(pattern), from the reply of KEYS on: DEL of the keys found
deletePatternDel(keys, fault) ==
    TryCatch(IF fault = "throw" THEN Outcome(0, redis, TRUE, TRUE)
             ELSE Outcome(Cardinality(keys \cap DOMAIN redis), Remove(redis, keys),
                          TRUE, FALSE),
             0)

\* exists(key)
exists(key, fault) ==
    IF NotAvailable THEN Outcome(FALSE, redis, FALSE, FALSE)
    ELSE LET prefixedKey == getPrefixedKey(key)
         IN TryCatch(IF fault = "throw" THEN Outcome(FALSE, redis, TRUE, TRUE)
                     ELSE Outcome(prefixedKey \in DOMAIN redis, redis, TRUE, FALSE),
                     FALSE)

\* flush(): FLUSHDB empties the backend's database
flush(fault) ==
    IF NotAvailable THEN Outcome(FALSE, redis, FALSE, FALSE)
    ELSE TryCatch(IF fault = "throw" THEN Outcome(FALSE, redis, TRUE, TRUE)
                  ELSE Outcome(TRUE, <<>>, TRUE, FALSE),
                  FALSE)

\* The record of a call: the operation, whether the client was available when it was
\* made, how the backend call went, and the outcome.
Call(op, fault, out) ==
    [op |-> op, available |-> isReady, fault |-> fault, ret |-> out.ret,
     called |-> out.called, raised |-> out.raised, changed |-> out.store # redis]

(***************************************************************************)
(* The store of record: prisma.user                                        *)
(***************************************************************************)

S_user == <<"u", "s", "e", "r">>
S_users == <<"u", "s", "e", "r", "s">>
S_email == <<"e", "m", "a", "i", "l">>
S_is_active == <<"i", "s", "_", "a", "c", "t", "i", "v", "e">>
S_true == <<"t", "r", "u", "e">>

U1 == <<"1">>
U2 == <<"2">>
\* The ids of the users table, in the order the rows are created.
IdOrder == <<U1, U2>>
UserIds == {IdOrder[i] : i \in 1..Len(IdOrder)}
Emails == {<<"a">>, <<"b">>}
Names == {<<"n">>, <<"m">>}

CreatedAt(id) == CHOOSE i \in 1..Len(IdOrder) : IdOrder[i] = id

\* A row of the table: used is whether the id was ever given to a row.
NoRow == [exists |-> FALSE, used |-> FALSE, email |-> <<>>, name |-> <<>>]
RowOf(email, name) == [exists |-> TRUE, used |-> TRUE, email |-> email, name |-> name]

\* select: { id, name, email, phone, is_active, created_at }
Selected(id) ==
    [id |-> id, email |-> db[id].email, name |-> db[id].name,
     created_at |-> <<"Date", CreatedAt(id)>>]

\* userModel.findUnique({ where: { id } })
findUniqueById(id) == IF db[id].exists THEN UserVal(Selected(id)) ELSE Null

\* userModel.findUnique({ where: { email } })
findUniqueByEmail(email) ==
    IF \E id \in UserIds : db[id].exists /\ db[id].email = email
    THEN UserVal(Selected(CHOOSE id \in UserIds : db[id].exists /\ db[id].email = email))
    ELSE Null

\* The rows ordered by created_at desc
RECURSIVE RowsDesc(_)
RowsDesc(i) ==
    IF i = 0 THEN <<>>
    ELSE (IF db[IdOrder[i]].exists THEN <<Selected(IdOrder[i])>> ELSE <<>>) \o RowsDesc(i - 1)

\* userModel.findMany({ select, where, orderBy, skip, take }), every row being active
findMany(pagination) ==
    LET all == RowsDesc(Len(IdOrder))
    IN IF pagination = NoPagination THEN ListVal(all)
       ELSE LET skip == (pagination.page - 1) * pagination.limit
                last == IF skip + pagination.limit < Len(all)
                        THEN skip + pagination.limit ELSE Len(all)
            IN ListVal(SubSeq(all, skip + 1, last))

(***************************************************************************)
(* UserRepository                                                          *)
(***************************************************************************)

Procs == {"c1", "c2"}
Other(p) == IF p = "c1" THEN "c2" ELSE "c1"

\* UpdateUserDTO / CreateUserDTO: the fields given
NoData == [hasEmail |-> FALSE, email |-> <<>>, hasName |-> FALSE, name |-> <<>>]
EmailData(e) == [hasEmail |-> TRUE, email |-> e, hasName |-> FALSE, name |-> <<>>]
NameData(n) == [hasEmail |-> FALSE, email |-> <<>>, hasName |-> TRUE, name |-> n]
NewData(e, n) == [hasEmail |-> TRUE, email |-> e, hasName |-> TRUE, name |-> n]

\* The paginations UserService passes: none, or a page and a limit.
RepoPaginations == {NoPagination, [page |-> 1, limit |-> 1]}

RepoCall(kind, id, email, data, pagination) ==
    [kind |-> kind, id |-> id, email |-> email, data |-> data, pagination |-> pagination]

ReadCalls ==
    {RepoCall("findById", id, <<>>, NoData, NoPagination) : id \in UserIds}
    \cup {RepoCall("findByEmail", <<>>, e, NoData, NoPagination) : e \in Emails}
    \cup {RepoCall("findAll", <<>>, <<>>, NoData, pg) : pg \in RepoPaginations}

\* The writes: a user is created with email b, an email is changed to b, a name to m.
WriteCalls ==
    {RepoCall("create", <<>>, <<>>, NewData(<<"b">>, <<"n">>), NoPagination)}
    \cup {RepoCall("update", id, <<>>, EmailData(<<"b">>), NoPagination) : id \in UserIds}
    \cup {RepoCall("update", id, <<>>, NameData(<<"m">>), NoPagination) : id \in UserIds}
    \cup {RepoCall("delete", id, <<>>, NoData, NoPagination) : id \in UserIds}

Reads == {"findById", "findByEmail", "findAll"}
Writes == {"create", "update", "delete"}

NoCur == [found |-> FALSE, email |-> <<>>]

\* A repository call in progress: its arguments, its place (pc), its locals (cur:
\* currentUser / userToDelete, res: result, keys: the reply of KEYS), what it
\* returned (ret), and the history the properties are stated on.
Idle ==
    [kind |-> "idle", pc |-> "idle", id |-> <<>>, email |-> <<>>, data |-> NoData,
     pagination |-> NoPagination, cur |-> NoCur, res |-> Null, keys |-> {}, ret |-> Null,
     hit |-> Null,           \* what the get of a read returned
     cached |-> Null,        \* the user the findByEmail before has left cached
     wrote |-> FALSE,        \* the store-of-record write has succeeded
     touched |-> FALSE,      \* a cache set, delete or deletePattern was called
     served |-> TRUE,        \* every cache call found the client ready and succeeded
     failedBy |-> "none",    \* the origin of the exception that ended the call
     before |-> <<>>,        \* the keyspace when the call began
     old |-> NoRow,          \* the row of id when the call began
     readWhen |-> "never",   \* the store read: before or after the other caller's write
     invalidated |-> {},     \* the keys whose DEL was executed
     snapshot |-> FALSE,     \* KEYS was executed
     patternDone |-> FALSE,  \* deletePattern has returned
     lateSets |-> {},        \* keys set after the other caller's invalidation of them
     windowSets |-> {}]      \* list keys set between the other caller's KEYS and DEL

\* findByEmail setting the key it looked up only
ProgramSingleKey(kind) ==
    CASE kind = "findById" -> <<"get", "db", "set">>
      [] kind = "findByEmail" -> <<"get", "db", "set">>
      [] kind = "findAll" -> <<"get", "db", "set">>
      [] kind = "create" -> <<"write", "keys", "del">>
      [] kind = "update" ->
            <<"read", "write", "delById", "delByOld", "delByNew", "keys", "del">>
      [] kind = "delete" -> <<"read", "write", "delById", "delByOld", "keys", "del">>

\* update, create and delete invalidating before they write
ProgramInvalidateFirst(kind) ==
    CASE kind = "findById" -> <<"get", "db", "set">>
      [] kind = "findByEmail" -> <<"get", "db", "set", "setById">>
      [] kind = "findAll" -> <<"get", "db", "set">>
      [] kind = "create" -> <<"keys", "del", "write">>
      [] kind = "update" ->
            <<"read", "delById", "delByOld", "delByNew", "keys", "del", "write">>
      [] kind = "delete" -> <<"read", "delById", "delByOld", "keys", "del", "write">>

\* The steps of each method, in program order.
Program(kind) ==
    CASE kind = "findById" -> <<"get", "db", "set">>
      [] kind = "findByEmail" -> <<"get", "db", "set", "setById">>
      [] kind = "findAll" -> <<"get", "db", "set">>
      [] kind = "create" -> <<"write", "keys", "del">>
      [] kind = "update" ->
            <<"read", "write", "delById", "delByOld", "delByNew", "keys", "del">>
      [] kind = "delete" -> <<"read", "write", "delById", "delByOld", "keys", "del">>

\* The new email of invalidateUserCache: result.email in update, none in delete.
NewEmail(q) == IF q.kind = "update" /\ q.res # Null THEN q.res.u.email ELSE <<>>

\* invalidateUserCache without the delete of the old email's key
SkippedOldEmail(q, step) ==
    \/ step \in {"set", "setById"} /\ q.res = Null
    \/ step \in {"delById", "delByOld"} /\ q.kind = "delete" /\ ~q.cur.found
    \/ step = "delByOld"
    \/ step = "delByNew" /\ (NewEmail(q) = <<>> \/ NewEmail(q) = q.cur.email)
    \/ step = "del" /\ q.keys = {}

\* invalidateUserCache without the delete of the by-id key
SkippedById(q, step) ==
    \/ step \in {"set", "setById"} /\ q.res = Null
    \/ step = "delById"
    \/ step = "delByOld" /\ (q.cur.email = <<>> \/ (q.kind = "delete" /\ ~q.cur.found))
    \/ step = "delByNew" /\ (NewEmail(q) = <<>> \/ NewEmail(q) = q.cur.email)
    \/ step = "del" /\ q.keys = {}

\* The reads without their if (result): whatever the store returned is set
SkippedNoResultTest(q, step) ==
    \/ step = "setById" /\ q.res = Null
    \/ step \in {"delById", "delByOld"} /\ q.kind = "delete" /\ ~q.cur.found
    \/ step = "delByOld" /\ q.cur.email = <<>>
    \/ step = "delByNew" /\ (NewEmail(q) = <<>> \/ NewEmail(q) = q.cur.email)
    \/ step = "del" /\ q.keys = {}

\* The branches that leave a step out.
Skipped(q, step) ==
    \/ step \in {"set", "setById"} /\ q.res = Null                \* if (result)
    \/ step \in {"delById", "delByOld"} /\ q.kind = "delete" /\ ~q.cur.found
                                                                  \* if (userToDelete)
    \/ step = "delByOld" /\ q.cur.email = <<>>                     \* if (oldEmail)
    \/ step = "delByNew" /\ (NewEmail(q) = <<>> \/ NewEmail(q) = q.cur.email)
                                      \* if (newEmail && newEmail !== oldEmail)
    \/ step = "del" /\ q.keys = {}                                \* keys.length === 0

RECURSIVE FirstStep(_, _)
FirstStep(q, i) ==
    IF i > Len(Program(q.kind)) THEN "done"
    ELSE IF Skipped(q, Program(q.kind)[i]) THEN FirstStep(q, i + 1)
    ELSE Program(q.kind)[i]

Index(q) == CHOOSE i \in 1..Len(Program(q.kind)) : Program(q.kind)[i] = q.pc

\* q after its current step: at the next step that is not left out, or returned.
Advance(q) ==
    LET pc == FirstStep(q, Index(q) + 1)
    IN [q EXCEPT !.pc = pc, !.ret = IF pc = "done" THEN q.res ELSE q.ret]

Thrown(q, origin) == [q EXCEPT !.pc = "failed", !.failedBy = origin]

ReadKeyUnpaged(q) ==
    IF q.kind = "findById" THEN entityById(S_user, q.id)
    ELSE IF q.kind = "findByEmail" THEN entityByField(S_user, S_email, q.email)
    ELSE entityList(S_users, NoPagination, Filters(<<FilterStr(S_is_active, S_true)>>))

\* The key a read looks up and populates.
ReadKey(q) ==
    IF q.kind = "findById" THEN entityById(S_user, q.id)
    ELSE IF q.kind = "findByEmail" THEN entityByField(S_user, S_email, q.email)
    ELSE entityList(S_users, q.pagination, Filters(<<FilterStr(S_is_active, S_true)>>))

\* A pattern that matches every key of the application
ListPatternEverything == <<"*">>

\* A pattern that matches the unpaginated lists only
ListPatternAll == entityPattern(S_users, S_list \o Colon \o S_all \o <<"*">>)

\* The pattern of invalidateUsersListCache
ListPattern == entityPattern(S_users, S_list \o Colon \o <<"*">>)

\* A cache call's effect on the history of the caller.
Noted(q, f, mutates) ==
    [q EXCEPT !.served = q.served /\ isReady /\ f = "ok",
              !.touched = q.touched \/ mutates]

\* The largest number of repository calls of a behaviour.
MaxOps == 3

\* The user that the call a caller has just finished has left cached under the by-id
\* key that call looks up: the one a served findByEmail found after a miss.
LeftCached(q, call) ==
    IF /\ q.kind = "findByEmail" /\ q.pc = "done" /\ q.hit = Null /\ q.res # Null
       /\ q.served
       /\ call.kind = "findById" /\ call.id = q.res.u.id
    THEN q.res
    ELSE Null

\* A method of the repository is called.
Begin(p, call) ==
    /\ procs[p].pc \in {"idle", "done", "failed"}
    /\ call.kind = "create" => \E id \in UserIds : ~db[id].used
    /\ procs' = [procs EXCEPT ![p] =
                    LET q == [Idle EXCEPT !.kind = call.kind, !.id = call.id,
                                          !.email = call.email, !.data = call.data,
                                          !.pagination = call.pagination,
                                          !.before = redis,
                                          !.cached = LeftCached(procs[p], call),
                                          !.old = IF call.id \in UserIds
                                                  THEN db[call.id] ELSE NoRow]
                    IN [q EXCEPT !.pc = FirstStep(q, 1)]]
    /\ nops' = nops + 1
    /\ UNCHANGED <<db, cacheVars, keyVars>>

\* A test that takes every cached value for a miss
HitNever(cachedResult) == FALSE

\* if (cachedResult): null is falsy, an object and an array (an empty one too) are truthy
Hit(cachedResult) == cachedResult # Null

\* const cachedResult = await cacheService.get(cacheKey); if (cachedResult) return it
Get(p, F) ==
    /\ procs[p].pc = "get"
    /\ \E f \in F \cap GetFaults :
        LET q == procs[p]
            out == get(ReadKey(q), f)
            n == [Noted(q, f, FALSE) EXCEPT !.hit = out.ret]
        IN /\ redis' = out.store
           /\ lastCall' = Call("get", f, out)
           /\ procs' = [procs EXCEPT ![p] =
                           IF out.raised THEN Thrown(n, "cache")
                           ELSE IF Hit(out.ret)
                           THEN [n EXCEPT !.pc = "done", !.ret = out.ret]
                           ELSE Advance(n)]
    /\ UNCHANGED <<db, nops, client, isConnected, conn, keyVars>>

\* The read of the store of record after a miss
Query(p) ==
    /\ procs[p].pc = "db"
    /\ LET q == procs[p]
           result == IF q.kind = "findById" THEN findUniqueById(q.id)
                     ELSE IF q.kind = "findByEmail" THEN findUniqueByEmail(q.email)
                     ELSE findMany(q.pagination)
       IN procs' = [procs EXCEPT ![p] =
                       Advance([q EXCEPT !.res = result,
                                         !.readWhen = IF procs[Other(p)].wrote
                                                      THEN "after" ELSE "before"])]
    /\ UNCHANGED <<db, nops, cacheVars, keyVars>>

\* When the caller sets key: whether the other caller's invalidation of it is over
\* (late), or stands between its KEYS and its DEL (window).
IsListKey(key) == GlobMatch(ListPattern, key)
SetNoted(p, q, key) ==
    LET o == procs[Other(p)]
        late == IF IsListKey(key) THEN o.patternDone ELSE key \in o.invalidated
        window == IsListKey(key) /\ o.snapshot /\ ~o.patternDone
    IN [q EXCEPT !.lateSets = IF late THEN q.lateSets \cup {key} ELSE q.lateSets,
                 !.windowSets = IF window THEN q.windowSets \cup {key} ELSE q.windowSets]

\* BaseRepository.CACHE_TTL
CACHE_TTL_SHORT == 300
CACHE_TTL_MEDIUM == 900

\* await cacheService.set(cacheKey, result, ttl): 300 for a list, 900 for a user
Set(p, F) ==
    /\ procs[p].pc = "set"
    /\ \E f \in F \cap SetFaults :
        LET q == procs[p]
            ttl == IF q.kind = "findAll" THEN CACHE_TTL_SHORT ELSE CACHE_TTL_MEDIUM
            out == set(ReadKey(q), q.res, ttl, f)
            n == Noted(q, f, TRUE)
        IN /\ redis' = out.store
           /\ lastCall' = Call("set", f, out)
           /\ procs' = [procs EXCEPT ![p] =
                           IF out.raised THEN Thrown(n, "cache")
                           ELSE Advance(IF out.ret THEN SetNoted(p, n, ReadKey(q)) ELSE n)]
    /\ UNCHANGED <<db, nops, client, isConnected, conn, keyVars>>

\* findByEmail: await cacheService.set(CacheKey.byId("user", result.id), result, 900)
SetById(p, F) ==
    /\ procs[p].pc = "setById"
    /\ \E f \in F \cap SetFaults :
        LET q == procs[p]
            key == entityById(S_user, q.res.u.id)
            out == set(key, q.res, CACHE_TTL_MEDIUM, f)
            n == Noted(q, f, TRUE)
        IN /\ redis' = out.store
           /\ lastCall' = Call("set", f, out)
           /\ procs' = [procs EXCEPT ![p] =
                           IF out.raised THEN Thrown(n, "cache")
                           ELSE Advance(IF out.ret THEN SetNoted(p, n, key) ELSE n)]
    /\ UNCHANGED <<db, nops, client, isConnected, conn, keyVars>>

\* update, delete: findUnique({ where: { id }, select: { email: true } })
Read(p) ==
    /\ procs[p].pc = "read"
    /\ LET q == procs[p]
       IN procs' = [procs EXCEPT ![p] =
                       Advance([q EXCEPT !.cur = [found |-> db[q.id].exists,
                                                  email |-> db[q.id].email]])]
    /\ UNCHANGED <<db, nops, cacheVars, keyVars>>

EmailTaken(email, except) ==
    \E id \in UserIds \ except : db[id].exists /\ db[id].email = email

\* userModel.create / update / delete: the write, or the exception of a missing row
\* or of a taken email
Write(p) ==
    /\ procs[p].pc = "write"
    /\ LET q == procs[p]
           newId == IdOrder[CHOOSE i \in 1..Len(IdOrder) :
                               /\ ~db[IdOrder[i]].used
                               /\ \A j \in 1..(i - 1) : db[IdOrder[j]].used]
           fails == CASE q.kind = "create" -> EmailTaken(q.data.email, {})
                      [] q.kind = "update" ->
                            \/ ~db[q.id].exists
                            \/ q.data.hasEmail /\ EmailTaken(q.data.email, {q.id})
                      [] q.kind = "delete" -> ~db[q.id].exists
           id == IF q.kind = "create" THEN newId ELSE q.id
           row == CASE q.kind = "create" -> RowOf(q.data.email, q.data.name)
                    [] q.kind = "update" ->
                          RowOf(IF q.data.hasEmail THEN q.data.email ELSE db[id].email,
                                IF q.data.hasName THEN q.data.name ELSE db[id].name)
                    [] q.kind = "delete" -> [db[id] EXCEPT !.exists = FALSE]
           result == [id |-> id,
                      email |-> IF q.kind = "delete" THEN db[id].email ELSE row.email,
                      name |-> IF q.kind = "delete" THEN db[id].name ELSE row.name,
                      created_at |-> <<"Date", CreatedAt(id)>>]
       IN IF fails
          THEN /\ procs' = [procs EXCEPT ![p] = Thrown(q, "store")]
               /\ db' = db
          ELSE /\ db' = [db EXCEPT ![id] = row]
               /\ procs' = [procs EXCEPT ![p] =
                               Advance([q EXCEPT !.res = UserVal(result), !.wrote = TRUE])]
    /\ UNCHANGED <<nops, cacheVars, keyVars>>

\* invalidateUserCache: cacheService.delete of the by-id key, of the old email's key
\* and of the new email's key
InvalidateUserCache(p, F) ==
    /\ procs[p].pc \in {"delById", "delByOld", "delByNew"}
    /\ \E f \in F \cap CallFaults :
        LET q == procs[p]
            key == IF q.pc = "delById" THEN entityById(S_user, q.id)
                   ELSE IF q.pc = "delByOld"
                   THEN entityByField(S_user, S_email, q.cur.email)
                   ELSE entityByField(S_user, S_email, NewEmail(q))
            out == delete(key, f)
            n == Noted(q, f, TRUE)
        IN /\ redis' = out.store
           /\ lastCall' = Call("delete", f, out)
           /\ procs' = [procs EXCEPT ![p] =
                           IF out.raised THEN Thrown(n, "cache")
                           ELSE Advance([n EXCEPT !.invalidated =
                                            IF out.called /\ f = "ok"
                                            THEN n.invalidated \cup {key}
                                            ELSE n.invalidated])]
    /\ UNCHANGED <<db, nops, client, isConnected, conn, keyVars>>

\* invalidateUsersListCache: deletePattern("users:list:*") up to the reply of KEYS;
\* with no key found, or none asked for, deletePattern returns 0
DeletePatternKeys(p, F) ==
    /\ procs[p].pc = "keys"
    /\ \E f \in F \cap CallFaults :
        LET q == procs[p]
            out == deletePatternKeys(ListPattern, f)
            n == [Noted(q, f, TRUE) EXCEPT !.keys = out.ret,
                                           !.snapshot = out.called /\ f = "ok"]
            a == Advance(n)
        IN /\ redis' = out.store
           /\ lastCall' = IF out.raised \/ a.pc = "del" THEN lastCall
                          ELSE Call("deletePattern", f, Outcome(0, redis, out.called, FALSE))
           /\ procs' = [procs EXCEPT ![p] =
                           IF out.raised THEN Thrown(n, "cache")
                           ELSE [a EXCEPT !.patternDone = a.pc # "del"]]
    /\ UNCHANGED <<db, nops, client, isConnected, conn, keyVars>>

\* deletePattern from the reply of KEYS on: await this.client.del(keys)
DeletePatternDel(p, F) ==
    /\ procs[p].pc = "del"
    /\ \E f \in F \cap CallFaults :
        LET q == procs[p]
            out == deletePatternDel(q.keys, f)
            n == [q EXCEPT !.served = q.served /\ f = "ok", !.patternDone = TRUE]
        IN /\ redis' = out.store
           /\ lastCall' = [Call("deletePattern", f, out) EXCEPT !.available = TRUE]
           /\ procs' = [procs EXCEPT ![p] =
                           IF out.raised THEN Thrown(n, "cache") ELSE Advance(n)]
    /\ UNCHANGED <<db, nops, client, isConnected, conn, keyVars>>

\* The diagnostic route: cacheService.exists(cacheKey)
Exists(F) ==
    /\ nops < MaxOps
    /\ procs["c1"].pc \in {"idle", "done", "failed"}
    /\ nops' = nops + 1
    /\ \E f \in F \cap CallFaults, pg \in RepoPaginations :
        LET out == exists(entityList(S_users, pg,
                                     Filters(<<FilterStr(S_is_active, S_true)>>)), f)
        IN /\ redis' = out.store
           /\ lastCall' = Call("exists", f, out)
    /\ UNCHANGED <<db, procs, client, isConnected, conn, keyVars>>

\* The maintenance route: cacheService.flush()
Flush(F) ==
    /\ nops < MaxOps
    /\ procs["c1"].pc \in {"idle", "done", "failed"}
    /\ nops' = nops + 1
    /\ \E f \in F \cap CallFaults :
        LET out == flush(f)
        IN /\ redis' = out.store
           /\ lastCall' = Call("flush", f, out)
    /\ UNCHANGED <<db, procs, client, isConnected, conn, keyVars>>

\* The connection of a service just constructed: whether env.REDIS_URL is set, whether
\* the backend is reachable, whether a connect() awaits client.connect(), the clients
\* createClient has made that are not closed, the listeners registered on them, the
\* failed attempts the client's reconnect loop has counted since it was last
\* connected and the delays it waited after them, the connect() calls that returned
\* at once, whether the latest connect() dropped its client, and for how long the
\* request now awaited has been without an answer.
Connection(url) ==
    [url |-> url, up |-> TRUE, pending |-> FALSE, clients |-> 0, handlers |-> 0,
     retries |-> 0, delays |-> <<>>, returned |-> 0, dropped |-> FALSE, waited |-> 0]

\* The connection once connect() has returned with its client connected.
Connected == [Connection(TRUE) EXCEPT !.clients = 1, !.handlers = 3]

Min(a, b) == IF a <= b THEN a ELSE b

RetryStep == 50
RetryCap == 1000

\* A strategy without the cap
reconnectStrategyUncapped(retries) == retries * RetryStep

\* reconnectStrategy: (retries) => Math.min(retries * 50, 1000)
reconnectStrategy(retries) == Min(retries * RetryStep, RetryCap)

\* A guard that does not look at the client
ConnectReturnsNoClientTest == ~conn.url

\* A guard that does not look at REDIS_URL
ConnectReturnsNoUrlTest == client # "null"

\* if (this.client || !env.REDIS_URL) return
ConnectReturns == client # "null" \/ ~conn.url

\* connect() from its call to its return, nothing else happening in between: it
\* returns at once if a client exists or no URL is set; else it creates the client,
\* registers the listeners and awaits the connection, which resolves with the client
\* connected ('connect' has set isConnected) or rejects, and then the client is dropped.
Connect ==
    /\ ~ConnectReturns
    /\ \E ok \in BOOLEAN :
        /\ ok => conn.up
        /\ client' = IF ok THEN "client" ELSE "null"
        /\ isConnected' = ok
        /\ conn' = IF ok THEN [conn EXCEPT !.clients = 1, !.handlers = 3,
                                           !.dropped = FALSE]
                   ELSE [conn EXCEPT !.dropped = TRUE]
    /\ UNCHANGED <<db, redis, procs, lastCall, nops, keyVars>>

MaxConnects == 2

\* connect() up to its await (lines 83-114 run without a pause, so that a second call
\* finds what the first has assigned): it returns at once, or creates the client,
\* registers the three listeners and starts client.connect()
ConnectCall ==
    /\ IF ConnectReturns
       THEN /\ conn.returned < MaxConnects
            /\ conn' = [conn EXCEPT !.returned = @ + 1]
            /\ UNCHANGED client
       ELSE /\ conn.clients < MaxConnects
            /\ client' = "client"
            /\ conn' = [conn EXCEPT !.clients = @ + 1, !.handlers = @ + 3,
                                    !.pending = TRUE, !.dropped = FALSE]
    /\ UNCHANGED <<db, redis, isConnected, procs, lastCall, nops, keyVars>>

\* await this.client.connect() resolves: the client is connected
ConnectResolve ==
    /\ conn.pending
    /\ isConnected
    /\ conn' = [conn EXCEPT !.pending = FALSE]
    /\ UNCHANGED <<db, redis, client, isConnected, procs, lastCall, nops, keyVars>>

\* await this.client.connect() rejects, the backend being out of reach: the catch
\* drops the client, which the library has closed (a closed client emits nothing more)
ConnectReject ==
    /\ conn.pending
    /\ ~conn.up
    /\ client' = "null"
    /\ isConnected' = FALSE
    /\ conn' = [conn EXCEPT !.pending = FALSE, !.clients = @ - 1, !.handlers = @ - 3,
                            !.retries = 0, !.delays = <<>>, !.dropped = TRUE]
    /\ UNCHANGED <<db, redis, procs, lastCall, nops, keyVars>>

\* this.client.on('error') and this.client.on('disconnect')
OnError ==
    /\ client # "null"
    /\ isConnected
    /\ isConnected' = FALSE
    /\ conn' = [conn EXCEPT !.waited = 0]     \* the requests awaited are rejected
    /\ UNCHANGED <<db, redis, client, procs, lastCall, nops, keyVars>>

MaxRetries == 22

\* An attempt of the client's reconnect loop fails, the backend being out of reach:
\* 'error' is emitted, and the loop waits the delay reconnectStrategy returns for its
\* count of failed attempts
Retry ==
    /\ client # "null"
    /\ ~isConnected
    /\ ~conn.up
    /\ conn.retries < MaxRetries
    /\ isConnected' = FALSE
    /\ conn' = [conn EXCEPT !.retries = @ + 1,
                            !.delays = Append(@, reconnectStrategy(conn.retries))]
    /\ UNCHANGED <<db, redis, client, procs, lastCall, nops, keyVars>>

\* this.client.on('connect'): an attempt of the client has reached the backend
OnConnect ==
    /\ client # "null"
    /\ ~isConnected
    /\ conn.up
    /\ isConnected' = TRUE
    /\ conn' = [conn EXCEPT !.retries = 0, !.delays = <<>>]
    /\ UNCHANGED <<db, redis, client, procs, lastCall, nops, keyVars>>

\* The backend goes away, and comes back.
BackendDown ==
    /\ conn.up
    /\ conn' = [conn EXCEPT !.up = FALSE]
    /\ UNCHANGED <<db, redis, client, isConnected, procs, lastCall, nops, keyVars>>

BackendUp ==
    /\ ~conn.up
    /\ conn' = [conn EXCEPT !.up = TRUE, !.waited = 0]
    /\ UNCHANGED <<db, redis, client, isConnected, procs, lastCall, nops, keyVars>>

\* The backend removes a key whose TTL has run out: a key that was given one.
Expire ==
    /\ \E k \in DOMAIN redis : redis[k].ttl > 0 /\ redis' = Remove(redis, {k})
    /\ UNCHANGED <<db, client, isConnected, conn, procs, nops, lastCall, keyVars>>

AllFaults == {"ok", "throw", "badjson", "unserializable"}
NoFaults == {"ok"}

Step(p, F) ==
    \/ Get(p, F)
    \/ Query(p)
    \/ Set(p, F)
    \/ SetById(p, F)
    \/ Read(p)
    \/ Write(p)
    \/ InvalidateUserCache(p, F)
    \/ DeletePatternKeys(p, F)
    \/ DeletePatternDel(p, F)

Descriptor(kind, entityType, id, field, value, query, pagination, filters) ==
    [kind |-> kind, entityType |-> entityType, id |-> id, field |-> field,
     value |-> value, query |-> query, pagination |-> pagination, filters |-> filters]

NoDescriptor == Descriptor("none", <<>>, <<>>, <<>>, <<>>, <<>>, NoPagination, NoFilters)

KeysIdle == desc1 = NoDescriptor /\ key1 = <<>> /\ desc2 = NoDescriptor /\ key2 = <<>>

\* The table as seeded: one user.
SeededDb == [id \in UserIds |-> IF id = U1 THEN RowOf(<<"a">>, <<"n">>) ELSE NoRow]

\* After construction: no client, not connected, an empty keyspace.
Init ==
    /\ KeysIdle
    /\ db = SeededDb
    /\ redis = <<>>
    /\ client = "null"
    /\ isConnected = FALSE
    /\ procs = [p \in Procs |-> Idle]
    /\ lastCall = NoCall
    /\ nops = 0
    /\ conn = Connection(TRUE)

\* One caller, its repository calls one at a time; the connection comes and goes,
\* backend calls fail, keys expire.
Next ==
    \/ \E call \in ReadCalls \cup WriteCalls : nops < MaxOps /\ Begin("c1", call)
    \/ Step("c1", AllFaults)
    \/ Exists(AllFaults)
    \/ Flush(AllFaults)
    \/ Connect
    \/ OnError
    \/ OnConnect
    \/ Expire

Spec == Init /\ [][Next]_vars

\* The calls are made one at a time and the backend serves every call that reaches
\* it; the connection to it is lost and found again at any point.
NextOutage ==
    \/ \E call \in ReadCalls \cup WriteCalls : nops < MaxOps /\ Begin("c1", call)
    \/ Step("c1", NoFaults)
    \/ Connect
    \/ OnError
    \/ OnConnect

SpecOutage == Init /\ [][NextOutage]_vars

(***************************************************************************)
(* The life of the connection                                              *)
(***************************************************************************)

\* The service as constructed, with REDIS_URL set or not.
InitConn ==
    /\ KeysIdle
    /\ db = SeededDb
    /\ redis = <<>>
    /\ client = "null"
    /\ isConnected = FALSE
    /\ procs = [p \in Procs |-> Idle]
    /\ lastCall = NoCall
    /\ nops = 0
    /\ conn \in {Connection(url) : url \in BOOLEAN}

\* The calls made while the connection comes and goes: the reads that find user 1
\* and its deletion, which between them use get, set, delete and deletePattern.
ConnCalls ==
    {c \in ReadCalls \cup WriteCalls :
        \/ c.kind \in {"findById", "delete"} /\ c.id = U1
        \/ c.kind = "findByEmail" /\ c.email = SeededDb[U1].email
        \/ c.kind = "findAll" /\ c.pagination = NoPagination}

\* connect() is called at any time, by any number of callers; its await resolves or
\* rejects; the client loses its connection and finds it again; the backend goes and
\* comes back; meanwhile the cache is used.
NextConn ==
    \/ ConnectCall
    \/ ConnectResolve
    \/ ConnectReject
    \/ OnError
    \/ OnConnect
    \/ BackendDown
    \/ BackendUp
    \/ \E call \in ConnCalls : nops < MaxOps /\ Begin("c1", call)
    \/ Step("c1", NoFaults)
    \/ Exists(NoFaults)
    \/ Flush(NoFaults)

SpecConn == InitConn /\ [][NextConn]_vars

\* The connection with the attempts of the client's reconnect loop, one by one. The
\* loop goes on for as long as reconnectStrategy returns a number, which it always
\* does: an attempt that can reach the backend is made, sooner or later.
NextReconnect ==
    \/ ConnectCall
    \/ ConnectResolve
    \/ ConnectReject
    \/ OnError
    \/ Retry
    \/ OnConnect
    \/ BackendDown
    \/ BackendUp
    \/ Exists(NoFaults)
    \/ Flush(NoFaults)

SpecReconnect == InitConn /\ [][NextReconnect]_vars /\ WF_isConnected(OnConnect)

(***************************************************************************)
(* A backend that does not answer                                          *)
(***************************************************************************)

\* The steps of a repository call that await a call of the cache service.
CacheSteps == {"get", "set", "setById", "delById", "delByOld", "delByNew", "keys", "del"}

\* await this.client.get(...), setEx, del, keys are given no timeout, neither in the
\* operations nor in the options of createClient: the await of a request that was
\* sent ends when the backend answers it. (A request is not sent if the guard of the
\* operation finds the client not ready.)
Answered(p) == (procs[p].pc \in CacheSteps /\ isReady) => conn.up

\* The backend stops answering while the client still counts as connected, and
\* answers again; the 'error' of the client may follow or not.
MaxWait == 3

\* Time passes while the caller awaits the answer to a request.
Tick ==
    /\ ~Answered("c1")
    /\ conn.waited <= MaxWait
    /\ conn' = [conn EXCEPT !.waited = @ + 1]
    /\ UNCHANGED <<db, redis, client, isConnected, procs, lastCall, nops, keyVars>>

\* The caller goes on once what it awaits is settled.
Proceed ==
    /\ Answered("c1")
    /\ Step("c1", NoFaults)

\* The backend stops answering while the client still counts as connected, and
\* answers again; the 'error' of the client may follow or not.
NextHang ==
    \/ \E call \in ConnCalls : nops < MaxOps /\ Begin("c1", call)
    \/ Proceed
    \/ Tick
    \/ Connect
    \/ OnError
    \/ OnConnect
    \/ BackendDown
    \/ BackendUp

SpecHang == Init /\ [][NextHang]_vars

(***************************************************************************)
(* A backend shared with other services                                    *)
(***************************************************************************)

\* The keys two other services have written to the same database of the backend: one
\* whose namespace is this one's followed by "2", one that prefixes nothing. Both
\* hold an entry for a user 1 of their own.
OtherKeys == {keyPrefix \o <<"2">> \o Colon \o entityById(S_user, U1),
              entityById(S_user, U1)}

OtherEntry == [data |-> Stringify([t |-> "other"]), ttl |-> CACHE_TTL_SECONDS]

\* The client is connected; the database holds the keys of the other services.
InitShared ==
    /\ KeysIdle
    /\ db = SeededDb
    /\ redis = [k \in OtherKeys |-> OtherEntry]
    /\ client = "client"
    /\ isConnected = TRUE
    /\ procs = [p \in Procs |-> Idle]
    /\ lastCall = NoCall
    /\ nops = 0
    /\ conn = Connected

\* The repository and the routes use the cache; every call is served.
NextShared ==
    \/ \E call \in ConnCalls : nops < MaxOps /\ Begin("c1", call)
    \/ Step("c1", NoFaults)
    \/ Exists(NoFaults)
    \/ Flush(NoFaults)

SpecShared == InitShared /\ [][NextShared]_vars

\* The shared backend with its clock: the keys expire.
NextExpiry ==
    \/ NextShared
    \/ Expire

\* The backend removes a key with an expiry once its time has run out.
SpecExpiry == InitShared /\ [][NextExpiry]_vars /\ WF_redis(Expire)

(***************************************************************************)
(* The self-test: testCacheConnection                                      *)
(***************************************************************************)

\* const testKey = 'test:cache:connection'
testKey == <<"t", "e", "s", "t", ":", "c", "a", "c", "h", "e", ":",
             "c", "o", "n", "n", "e", "c", "t", "i", "o", "n">>

\* { message: 'Cache is working!', timestamp: new Date().toISOString() }
testValue(timestamp) == [t |-> "test", message |-> "Cache is working!", timestamp |-> timestamp]

\* set(testKey, testValue, 60)
TEST_TTL == 60

\* A run of the self-test: its place, what its calls returned, and what it returned.
NoTest == [kind |-> "selfTest", pc |-> "idle", timestamp |-> 0, setResult |-> FALSE,
           getResult |-> Null, deleteResult |-> FALSE, deletedData |-> Null,
           ret |-> FALSE]

\* if (!cacheService.isReady()) await cacheService.connect(): connect() returns at
\* once, or leaves a connected client, or drops the client; it throws nothing.
TestBegin ==
    /\ procs["c2"].pc \in {"idle", "done"}
    /\ nops < MaxOps
    /\ nops' = nops + 1
    /\ procs' = [procs EXCEPT !["c2"] = [NoTest EXCEPT !.pc = "set", !.timestamp = nops + 1]]
    /\ IF isReady \/ ConnectReturns
       THEN UNCHANGED <<client, isConnected, conn>>
       ELSE \E ok \in BOOLEAN :
               /\ ok => conn.up
               /\ client' = IF ok THEN "client" ELSE "null"
               /\ isConnected' = ok
               /\ conn' = IF ok THEN [conn EXCEPT !.clients = 1, !.handlers = 3,
                                                  !.dropped = FALSE]
                          ELSE [conn EXCEPT !.dropped = TRUE]
    /\ UNCHANGED <<db, redis, lastCall, keyVars>>

\* const setResult = await cacheService.set(...); if (!setResult) return false
TestSet(F) ==
    /\ procs["c2"].pc = "set"
    /\ \E f \in F \cap SetFaults :
        LET q == procs["c2"]
            out == set(testKey, testValue(q.timestamp), TEST_TTL, f)
        IN /\ redis' = out.store
           /\ lastCall' = Call("set", f, out)
           /\ procs' = [procs EXCEPT !["c2"] =
                           IF out.ret THEN [q EXCEPT !.setResult = TRUE, !.pc = "get"]
                           ELSE [q EXCEPT !.pc = "done", !.ret = FALSE]]
    /\ UNCHANGED <<db, nops, client, isConnected, conn, keyVars>>

\* const getResult = await cacheService.get(testKey); if (!getResult) return false;
\* if (JSON.stringify(getResult) !== JSON.stringify(testValue)) return false
TestGet(F) ==
    /\ procs["c2"].pc = "get"
    /\ \E f \in F \cap GetFaults :
        LET q == procs["c2"]
            out == get(testKey, f)
            n == [q EXCEPT !.getResult = out.ret]
        IN /\ redis' = out.store
           /\ lastCall' = Call("get", f, out)
           /\ procs' = [procs EXCEPT !["c2"] =
                           IF ~Hit(out.ret) THEN [n EXCEPT !.pc = "done", !.ret = FALSE]
                           ELSE IF Stringify(out.ret) # Stringify(testValue(q.timestamp))
                           THEN [n EXCEPT !.pc = "done", !.ret = FALSE]
                           ELSE [n EXCEPT !.pc = "delete"]]
    /\ UNCHANGED <<db, nops, client, isConnected, conn, keyVars>>

AfterDeleteStrict(q, deleteResult) ==
    IF deleteResult THEN [q EXCEPT !.deleteResult = TRUE, !.pc = "verify"]
    ELSE [q EXCEPT !.pc = "done", !.ret = FALSE]

\* if (!deleteResult) logger.warn('... but cache might still be working')
AfterDelete(q, deleteResult) == [q EXCEPT !.deleteResult = deleteResult, !.pc = "verify"]

\* const deleteResult = await cacheService.delete(testKey)
TestDelete(F) ==
    /\ procs["c2"].pc = "delete"
    /\ \E f \in F \cap CallFaults :
        LET out == delete(testKey, f)
        IN /\ redis' = out.store
           /\ lastCall' = Call("delete", f, out)
           /\ procs' = [procs EXCEPT !["c2"] = AfterDelete(procs["c2"], out.ret)]
    /\ UNCHANGED <<db, nops, client, isConnected, conn, keyVars>>

\* const deletedData = await cacheService.get(testKey); if (deletedData) logger.warn(...);
\* return true
TestVerify(F) ==
    /\ procs["c2"].pc = "verify"
    /\ \E f \in F \cap GetFaults :
        LET out == get(testKey, f)
        IN /\ redis' = out.store
           /\ lastCall' = Call("get", f, out)
           /\ procs' = [procs EXCEPT !["c2"] =
                           [@ EXCEPT !.deletedData = out.ret, !.pc = "done", !.ret = TRUE]]
    /\ UNCHANGED <<db, nops, client, isConnected, conn, keyVars>>

\* Another run of the self-test, in another process of the service, sets the key with
\* the time of its own start.
OtherTestSet ==
    /\ conn.up
    /\ LET entry == [data |-> Stringify(testValue(0)), ttl |-> TEST_TTL]
           k == getPrefixedKey(testKey)
       IN /\ k \in DOMAIN redis => redis[k] # entry
          /\ redis' = [x \in DOMAIN redis \cup {k} |-> IF x = k THEN entry ELSE redis[x]]
    /\ UNCHANGED <<db, client, isConnected, conn, procs, nops, lastCall, keyVars>>

InitSelfTest ==
    /\ KeysIdle
    /\ db = SeededDb
    /\ redis = <<>>
    /\ client = "null"
    /\ isConnected = FALSE
    /\ procs = [p \in Procs |-> IF p = "c2" THEN NoTest ELSE Idle]
    /\ lastCall = NoCall
    /\ nops = 0
    /\ conn = Connection(TRUE)

\* The self-test is run, again and again; the connection comes and goes, backend calls
\* fail, the key expires, another run sets it.
NextSelfTest ==
    \/ TestBegin
    \/ TestSet(AllFaults)
    \/ TestGet(AllFaults)
    \/ TestDelete(AllFaults)
    \/ TestVerify(AllFaults)
    \/ OtherTestSet
    \/ OnError
    \/ OnConnect
    \/ Expire

SpecSelfTest == InitSelfTest /\ [][NextSelfTest]_vars

(***************************************************************************)
(* cacheMiddleware in front of a controller                                *)
(***************************************************************************)

\* A request on its way through the middleware and the controller: the method, the
\* user asked for, the cache key, whether res.json was overridden (wrapped), the
\* response (status, body, the X-Cache header), and the history the properties are
\* stated on.
NoRequest ==
    [kind |-> "request", pc |-> "idle", method |-> "GET", id |-> <<>>, key |-> <<>>,
     wrapped |-> FALSE, xcache |-> "none", status |-> 0, body |-> Null,
     reached |-> FALSE,      \* the controller was run
     calls |-> 0,            \* the CacheService calls made for the request
     ready |-> FALSE,        \* isReady() held when the middleware looked
     served |-> FALSE,       \* the backend answered the middleware's get
     prior |-> FALSE,        \* an earlier GET for the key was answered by the controller
     had |-> Null,           \* the text stored under the key when a served get read it
     answered |-> {},        \* the keys a controller has answered with X-Cache: MISS
     stored |-> <<>>]        \* the text the middleware stored under each key, still there

Methods == {"GET", "POST"}

MiddlewareAppliesAll(method) == TRUE

\* if (req.method !== 'GET') return next()
MiddlewareApplies(method) == method = "GET"

\* if (res.statusCode === 200 && data)
Cacheable(status, data) == status = 200 /\ data # Null

\* The body of the 404 of a user that does not exist
NotFoundBody == [t |-> "error", message |-> "not found"]

RequestBegin(p) ==
    /\ procs[p].pc \in {"idle", "done"}
    /\ nops < MaxOps
    /\ nops' = nops + 1
    /\ \E method \in Methods, id \in UserIds :
        procs' = [procs EXCEPT ![p] =
                     [NoRequest EXCEPT !.pc = "middleware", !.method = method, !.id = id,
                                       !.key = entityById(S_user, id),
                                       !.answered = procs[p].answered,
                                       !.stored = procs[p].stored]]
    /\ UNCHANGED <<db, cacheVars, keyVars>>

\* The middleware steps aside: the request is not a GET, or the cache is not ready.
MiddlewarePass(p) ==
    /\ procs[p].pc = "middleware"
    /\ ~MiddlewareApplies(procs[p].method) \/ ~isReady
    /\ procs' = [procs EXCEPT ![p].pc = "controller"]
    /\ UNCHANGED <<db, nops, cacheVars, keyVars>>

\* const cachedData = await cacheService.get(cacheKey): a hit is sent at once with
\* X-Cache: HIT; on a miss res.json is overridden and the controller comes next.
MiddlewareGet(p, F) ==
    /\ procs[p].pc = "middleware"
    /\ MiddlewareApplies(procs[p].method)
    /\ isReady
    /\ \E f \in F \cap GetFaults :
        LET q == procs[p]
            out == get(q.key, f)
            n == [q EXCEPT !.calls = @ + 1, !.ready = TRUE, !.served = f = "ok",
                           !.prior = q.key \in q.answered,
                           !.had = IF f = "ok" /\ q.key \in DOMAIN q.stored
                                   THEN q.stored[q.key] ELSE Null]
        IN /\ redis' = out.store
           /\ lastCall' = Call("get", f, out)
           /\ procs' = [procs EXCEPT ![p] =
                           IF Hit(out.ret)
                           THEN [n EXCEPT !.pc = "done", !.xcache = "HIT", !.status = 200,
                                          !.body = out.ret]
                           ELSE [n EXCEPT !.pc = "controller", !.wrapped = TRUE]]
    /\ UNCHANGED <<db, nops, client, isConnected, conn, keyVars>>

\* The controller of GET /:id answers with the user (200) or without (404); the
\* overridden res.json calls cacheService.set(cacheKey, data, options.ttl) for a 200
\* with a body, the command leaving before the response does, and sets X-Cache: MISS.
ControllerGet(p, F) ==
    /\ procs[p].pc = "controller"
    /\ procs[p].method = "GET"
    /\ \E f \in F \cap SetFaults :
        LET q == procs[p]
            result == findUniqueById(q.id)
            status == IF result = Null THEN 404 ELSE 200
            body == IF result = Null THEN NotFoundBody ELSE result
            sets == q.wrapped /\ Cacheable(status, body)
            out == set(q.key, body, 0, f)
            text == IF sets /\ out.ret THEN <<Stringify(body)>> ELSE <<>>
            Note(r) == [r EXCEPT
                          !.answered = IF q.wrapped THEN @ \cup {q.key} ELSE @,
                          !.stored = IF text = <<>> THEN @
                                     ELSE [k \in DOMAIN @ \cup {q.key} |->
                                              IF k = q.key THEN text[1] ELSE @[k]]]
            n == [q EXCEPT !.pc = "done", !.status = status, !.body = body,
                           !.reached = TRUE,
                           !.xcache = IF q.wrapped THEN "MISS" ELSE "none",
                           !.calls = IF sets THEN @ + 1 ELSE @]
        IN /\ (~sets => f = "ok")
           /\ redis' = IF sets THEN out.store ELSE redis
           /\ lastCall' = IF sets THEN Call("set", f, out) ELSE lastCall
           /\ procs' = [r \in Procs |-> Note(IF r = p THEN n ELSE procs[r])]
    /\ UNCHANGED <<db, nops, client, isConnected, conn, keyVars>>

\* The controller of a request that is not a GET changes the user's name.
ControllerPost(p) ==
    /\ procs[p].pc = "controller"
    /\ procs[p].method # "GET"
    /\ LET q == procs[p]
           found == db[q.id].exists
       IN /\ db' = IF found THEN [db EXCEPT ![q.id].name = <<"m">>] ELSE db
          /\ procs' = [procs EXCEPT ![p] =
                          [q EXCEPT !.pc = "done", !.reached = TRUE,
                                    !.status = IF found THEN 200 ELSE 404,
                                    !.body = IF found THEN findUniqueById(q.id)
                                             ELSE NotFoundBody]]
    /\ UNCHANGED <<nops, cacheVars, keyVars>>

\* An entry expires, or is invalidated by a delete of its key.
Evict ==
    /\ \E key \in {entityById(S_user, id) : id \in UserIds} :
        /\ getPrefixedKey(key) \in DOMAIN redis
        /\ redis' = Remove(redis, {getPrefixedKey(key)})
        /\ procs' = [r \in Procs |->
                        [procs[r] EXCEPT !.answered = @ \ {key},
                                         !.stored = [k \in DOMAIN @ \ {key} |-> @[k]]]]
    /\ UNCHANGED <<db, client, isConnected, conn, nops, lastCall, keyVars>>

InitMiddleware ==
    /\ KeysIdle
    /\ db = SeededDb
    /\ redis = <<>>
    /\ client = "client"
    /\ isConnected = TRUE
    /\ procs = [p \in Procs |-> NoRequest]
    /\ lastCall = NoCall
    /\ nops = 0
    /\ conn = Connected

\* Two requests at a time; the connection comes and goes, backend calls fail, entries
\* expire.
NextMiddleware ==
    \/ \E p \in Procs :
          \/ RequestBegin(p)
          \/ MiddlewarePass(p)
          \/ MiddlewareGet(p, AllFaults)
          \/ ControllerGet(p, AllFaults)
          \/ ControllerPost(p)
    \/ Evict
    \/ OnError
    \/ OnConnect

SpecMiddleware == InitMiddleware /\ [][NextMiddleware]_vars

(***************************************************************************)
(* A write and a read in flight together                                   *)
(***************************************************************************)

\* What the store of record answers to a read.
Answer(q) ==
    IF q.kind = "findById" THEN findUniqueById(q.id)
    ELSE IF q.kind = "findByEmail" THEN findUniqueByEmail(q.email)
    ELSE findMany(q.pagination)

RaceWrites == {c \in WriteCalls : c.kind \in {"update", "delete"} /\ c.id = U1}
RaceReads == {c \in ReadCalls : c.kind = "findById" => c.id = U1}

\* The keyspace earlier reads have left: the entries of calls, as the store answers.
CacheOf(calls) ==
    [k \in {getPrefixedKey(ReadKey(c)) : c \in calls} |->
        LET c == CHOOSE c \in calls : getPrefixedKey(ReadKey(c)) = k
        IN [data |-> Stringify(Answer(c)),
            ttl |-> IF c.kind = "findAll" THEN CACHE_TTL_SHORT ELSE CACHE_TTL_MEDIUM]]

\* The client is connected; the keyspace holds what some earlier reads have left.
InitRace ==
    /\ KeysIdle
    /\ db = SeededDb
    /\ redis \in {CacheOf(cs) : cs \in SUBSET {c \in RaceReads : Answer(c) # Null}}
    /\ client = "client"
    /\ isConnected = TRUE
    /\ procs = [p \in Procs |-> Idle]
    /\ lastCall = NoCall
    /\ nops = 0
    /\ conn = Connected

\* c1 updates or deletes user 1 while c2 reads; every backend call succeeds and no
\* TTL runs out before both have returned.
NextRace ==
    \/ \E call \in RaceWrites : procs["c1"].pc = "idle" /\ Begin("c1", call)
    \/ \E call \in RaceReads : procs["c2"].pc = "idle" /\ Begin("c2", call)
    \/ \E p \in Procs : Step(p, NoFaults)

SpecRace == InitRace /\ [][NextRace]_vars

(***************************************************************************)
(* Two updates of one user in flight together                              *)
(***************************************************************************)

\* The email of user 1 as seeded, and the emails the two updates give it.
UpdateEmails == {<<"a">>, <<"b">>, <<"c">>}

\* update(id, { email }): c1 changes the email of user 1 to b, c2 to c.
UpdateCall(p) ==
    RepoCall("update", U1, <<>>, EmailData(IF p = "c1" THEN <<"b">> ELSE <<"c">>),
             NoPagination)

\* The reads made before: findByEmail of the seeded email, and the list.
ReadsBefore ==
    {RepoCall("findByEmail", <<>>, <<"a">>, NoData, NoPagination),
     RepoCall("findAll", <<>>, <<>>, NoData, NoPagination)}

InitUpdates ==
    /\ KeysIdle
    /\ db = SeededDb
    /\ redis = CacheOf(ReadsBefore)
    /\ client = "client"
    /\ isConnected = TRUE
    /\ procs = [p \in Procs |-> Idle]
    /\ lastCall = NoCall
    /\ nops = 0
    /\ conn = Connected

\* findByEmail of a third caller, from its miss to its return with no step of the
\* updates in between: the user found is cached under the by-email and the by-id key.
ReadThrough ==
    /\ \E e \in UpdateEmails :
        LET result == findUniqueByEmail(e)
            keys == {getPrefixedKey(entityByField(S_user, S_email, e)),
                     getPrefixedKey(entityById(S_user, U1))}
        IN /\ result # Null
           /\ getPrefixedKey(entityByField(S_user, S_email, e)) \notin DOMAIN redis
           /\ redis' = [k \in DOMAIN redis \cup keys |->
                           IF k \in keys
                           THEN [data |-> Stringify(result), ttl |-> CACHE_TTL_MEDIUM]
                           ELSE redis[k]]
    /\ UNCHANGED <<db, client, isConnected, conn, procs, nops, lastCall, keyVars>>

\* Both callers update user 1; every backend call succeeds and no TTL runs out.
NextUpdates ==
    \/ \E p \in Procs :
          \/ procs[p].pc = "idle" /\ Begin(p, UpdateCall(p))
          \/ Read(p)
          \/ Write(p)
          \/ InvalidateUserCache(p, NoFaults)
          \/ DeletePatternKeys(p, NoFaults)
          \/ DeletePatternDel(p, NoFaults)
    \/ ReadThrough

SpecUpdates == InitUpdates /\ [][NextUpdates]_vars

(***************************************************************************)
(* Key derivations applied to access descriptors drawn from bounded sets   *)
(***************************************************************************)

\* The largest page and limit of a pagination.
MaxPage == 2

S_category_id == <<"c", "a", "t", "e", "g", "o", "r", "y", "_", "i", "d">>

\* Ids: a plain one, one that is the name of an aggregation, and one that holds the
\* separator.
KeyIds == {<<"1">>, S_count, S_email \o Colon \o <<"a">>}
KeyFields == {S_email}
KeyValues == {<<"a">>, <<"b">>}
KeyQueries == {<<"a">>, <<"A">>, <<" ", "a", " ", " ", "b">>, <<"a", "_", "b">>}

OptionalNumbers == {Undefined} \cup 1..MaxPage
Paginations == [page : OptionalNumbers, limit : OptionalNumbers]
\* entitySearch is called with no pagination or with a full one.
SearchPaginations == {pg \in Paginations : (pg.page = Undefined) <=> (pg.limit = Undefined)}

ActiveTrue == FilterStr(S_is_active, S_true)
CategoryC1 == FilterStr(S_category_id, <<"c", "1">>)
CategoryC2 == FilterStr(S_category_id, <<"c", "2">>)
FilterMaps ==
    {NoFilters, Filters(<<>>), Filters(<<ActiveTrue>>), Filters(<<CategoryC1>>),
     Filters(<<CategoryC2>>),
     Filters(<<ActiveTrue, CategoryC1>>), Filters(<<CategoryC1, ActiveTrue>>),
     Filters(<<FilterNull(S_category_id), ActiveTrue>>)}

InitKeys ==
    /\ KeysIdle
    /\ db = SeededDb
    /\ redis = <<>>
    /\ client = "null"
    /\ isConnected = FALSE
    /\ procs = [p \in Procs |-> Idle]
    /\ lastCall = NoCall
    /\ nops = 0
    /\ conn = Connection(TRUE)

\* A behaviour derives two keys, one after the other: the functions keep no state.
DeriveById ==
    /\ desc2.kind = "none"
    /\ \E id \in KeyIds :
        /\ desc1' = Descriptor("byId", S_user, id, <<>>, <<>>, <<>>, NoPagination, NoFilters)
        /\ key1' = entityById(S_user, id)
    /\ desc2' = desc1 /\ key2' = key1
    /\ UNCHANGED <<repoVars, cacheVars>>

DeriveByField ==
    /\ desc2.kind = "none"
    /\ \E f \in KeyFields, v \in KeyValues :
        /\ desc1' = Descriptor("byField", S_user, <<>>, f, v, <<>>, NoPagination, NoFilters)
        /\ key1' = entityByField(S_user, f, v)
    /\ desc2' = desc1 /\ key2' = key1
    /\ UNCHANGED <<repoVars, cacheVars>>

DeriveList ==
    /\ desc2.kind = "none"
    /\ \E pg \in Paginations, fl \in FilterMaps :
        /\ desc1' = Descriptor("list", S_user, <<>>, <<>>, <<>>, <<>>, pg, fl)
        /\ key1' = entityList(S_user, pg, fl)
    /\ desc2' = desc1 /\ key2' = key1
    /\ UNCHANGED <<repoVars, cacheVars>>

DeriveCount ==
    /\ desc2.kind = "none"
    /\ \E fl \in FilterMaps :
        /\ desc1' = Descriptor("count", S_user, <<>>, <<>>, <<>>, <<>>, NoPagination, fl)
        /\ key1' = count(S_user, fl)
    /\ desc2' = desc1 /\ key2' = key1
    /\ UNCHANGED <<repoVars, cacheVars>>

DeriveSearch ==
    /\ desc2.kind = "none"
    /\ \E q \in KeyQueries, pg \in SearchPaginations, fl \in FilterMaps :
        /\ desc1' = Descriptor("search", S_user, <<>>, <<>>, <<>>, q, pg, fl)
        /\ key1' = entitySearch(S_user, q, pg, fl)
    /\ desc2' = desc1 /\ key2' = key1
    /\ UNCHANGED <<repoVars, cacheVars>>

NextKeys == DeriveById \/ DeriveByField \/ DeriveList \/ DeriveCount \/ DeriveSearch

SpecKeys == InitKeys /\ [][NextKeys]_vars

(***************************************************************************)
(* List keys under any pagination                                          *)
(***************************************************************************)

\* CacheService.generateUsersListKey(page?, limit?), the key builder of the first
\* user repository
generateUsersListKey(page, limit) ==
    IF Truthy(page) /\ Truthy(limit)
    THEN Join(<<S_users, S_list, S_page, NumToString(page), S_limit, NumToString(limit)>>,
              Colon)
    ELSE Join(<<S_users, S_list, S_all>>, Colon)

\* page?: number, limit?: number: left out, or any natural number, 0 included.
ListNumbers == {Undefined} \cup 0..MaxPage
ListPaginations == [page : ListNumbers, limit : ListNumbers]

\* CacheKey.list(entityType, pagination)
DeriveEntityList ==
    /\ desc2.kind = "none"
    /\ \E pg \in ListPaginations :
        /\ desc1' = Descriptor("list", S_users, <<>>, <<>>, <<>>, <<>>, pg, NoFilters)
        /\ key1' = entityList(S_users, pg, NoFilters)
    /\ desc2' = desc1 /\ key2' = key1
    /\ UNCHANGED <<repoVars, cacheVars>>

\* cacheService.generateUsersListKey(pagination?.page, pagination?.limit)
DeriveUsersList ==
    /\ desc2.kind = "none"
    /\ \E pg \in ListPaginations :
        /\ desc1' = Descriptor("usersList", S_users, <<>>, <<>>, <<>>, <<>>, pg, NoFilters)
        /\ key1' = generateUsersListKey(pg.page, pg.limit)
    /\ desc2' = desc1 /\ key2' = key1
    /\ UNCHANGED <<repoVars, cacheVars>>

NextList == DeriveEntityList \/ DeriveUsersList

SpecList == InitKeys /\ [][NextList]_vars

(***************************************************************************)
(* deletePattern over a keyspace that holds the keys of several entities   *)
(***************************************************************************)

\* The largest number of keys the keyspace holds.
MaxKeys == 2

\* Entity types: one is the beginning of the other.
PatternTypes == {S_user, S_users}

\* No pagination, a full one, a page alone and a limit alone.
PatternPaginations ==
    {NoPagination, [page |-> 1, limit |-> 1], [page |-> 1, limit |-> Undefined],
     [page |-> Undefined, limit |-> 1]}

PatternFilterMaps == {NoFilters, Filters(<<ActiveTrue>>), Filters(<<CategoryC1, ActiveTrue>>)}

\* The keys list(entityType, pagination, filters) returns, by entity type
ListKeysOf ==
    [entityType \in PatternTypes |->
        {entityList(entityType, pg, fl) :
            pg \in PatternPaginations, fl \in PatternFilterMaps}]

\* The keys the generators return, by entity type: lists, and a by-id, a by-field and
\* a count key
KeysOfType ==
    [entityType \in PatternTypes |->
        ListKeysOf[entityType]
        \cup {entityById(entityType, <<"1">>),
              entityByField(entityType, S_email, <<"a">>),
              count(entityType, NoFilters)}]

\* The client is connected and the keyspace is empty.
InitPattern ==
    /\ KeysIdle
    /\ db = SeededDb
    /\ redis = <<>>
    /\ client = "client"
    /\ isConnected = TRUE
    /\ procs = [p \in Procs |-> Idle]
    /\ lastCall = NoCall
    /\ nops = 0
    /\ conn = Connected

\* cacheService.set(key, value, 300) of a key of some entity
PutKey ==
    /\ Cardinality(DOMAIN redis) < MaxKeys
    /\ \E entityType \in PatternTypes :
        \E key \in KeysOfType[entityType] :
            LET out == set(key, ListVal(<<>>), CACHE_TTL_SHORT, "ok")
            IN /\ getPrefixedKey(key) \notin DOMAIN redis
               /\ redis' = out.store
               /\ lastCall' = Call("set", "ok", out)
    /\ desc1' = NoDescriptor /\ key1' = <<>>
    /\ UNCHANGED <<desc2, key2, client, isConnected, conn, repoVars>>

\* cacheService.deletePattern(CacheKey.pattern(entityType, "list:*")), no other call
\* of the cache coming between its KEYS and its DEL
DeleteLists ==
    /\ \E entityType \in PatternTypes :
        LET pattern == entityPattern(entityType, S_list \o Colon \o <<"*">>)
            found == deletePatternKeys(pattern, "ok")
            out == IF found.ret = {} THEN Outcome(0, redis, found.called, FALSE)
                   ELSE deletePatternDel(found.ret, "ok")
        IN /\ redis' = out.store
           /\ lastCall' = Call("deletePattern", "ok", out)
           /\ desc1' = Descriptor("pattern", entityType, <<>>, <<>>, <<>>, <<>>,
                                  NoPagination, NoFilters)
           /\ key1' = pattern
    /\ UNCHANGED <<desc2, key2, client, isConnected, conn, repoVars>>

NextPattern == PutKey \/ DeleteLists

SpecPattern == InitPattern /\ [][NextPattern]_vars

\* The key-value pairs a filter map holds (none, for an omitted map).
FilterPairs(filters) == {filters.entries[i] : i \in 1..Len(filters.entries)}

\* C9: list, count and search return the same key for two filter maps that hold the
\* same key-value pairs, whatever their insertion order, and for an empty filter map
\* and an omitted one; everything else of the descriptor being equal.
KeyDeterminism ==
    (/\ desc1.kind \in {"list", "count", "search"}
     /\ desc2.kind = desc1.kind
     /\ desc2.entityType = desc1.entityType
     /\ desc2.query = desc1.query
     /\ desc2.pagination = desc1.pagination
     /\ FilterPairs(desc2.filters) = FilterPairs(desc1.filters))
    => key1 = key2

\* C9 witness: a list key was derived twice from filter maps that hold the same two
\* pairs in opposite insertion orders.
KeyDeterminismWitness ==
    /\ desc1.kind = "list" /\ desc2.kind = "list"
    /\ Len(desc1.filters.entries) = 2
    /\ desc2.filters.entries = <<desc1.filters.entries[2], desc1.filters.entries[1]>>
    /\ desc1.pagination = desc2.pagination
    /\ key1 = key2

\* What a descriptor asks for: the filter pairs that carry a value, and the search
\* query as normalized.
Logical(d) ==
    [kind |-> d.kind, entityType |-> d.entityType, id |-> d.id, field |-> d.field,
     value |-> d.value, query |-> ReplaceSpaces(Trim(ToLowerCase(d.query))),
     pagination |-> d.pagination,
     pairs |-> {e \in FilterPairs(d.filters) : ~e.isNull}]

\* C10 as claimed: two different descriptors of one entity type never get the same key.
NoKeyCollision ==
    (/\ desc1.kind # "none" /\ desc2.kind # "none"
     /\ desc1.entityType = desc2.entityType
     /\ Logical(desc1) # Logical(desc2))
    => key1 # key2

(***************************************************************************)
(* Properties of the repository and of the cache service                   *)
(***************************************************************************)

Prefixed(keys) == {getPrefixedKey(k) : k \in keys}

\* The read whose result key k caches.
CachedRead(k) == CHOOSE c \in ReadCalls : getPrefixedKey(ReadKey(c)) = k

\* The entry under k is not what the store of record answers now.
Stale(k) == Parse(redis[k].data) # Parse(Stringify(Answer(CachedRead(k))))

\* C1: when update(id, data) or delete(id) has returned, every cache call of it having
\* found the client connected and been served, the cache holds no entry under the
\* by-id key, under the by-email key of the old email, or under that of the new one.
InvalidationComplete ==
    \A p \in Procs :
        LET q == procs[p]
        IN (q.kind \in {"update", "delete"} /\ q.pc = "done" /\ q.served) =>
              /\ getPrefixedKey(entityById(S_user, q.id)) \notin DOMAIN redis
              /\ getPrefixedKey(entityByField(S_user, S_email, q.old.email))
                    \notin DOMAIN redis
              /\ q.kind = "update" =>
                    getPrefixedKey(entityByField(S_user, S_email, q.res.u.email))
                        \notin DOMAIN redis

\* C1 witness: an update that changed the email has returned, and the by-id key and
\* the old email's key were both cached when it began.
InvalidationCompleteWitness ==
    LET q == procs["c1"]
    IN /\ q.kind = "update" /\ q.pc = "done" /\ q.served
       /\ q.res.u.email # q.old.email
       /\ getPrefixedKey(entityById(S_user, q.id)) \in DOMAIN q.before
       /\ getPrefixedKey(entityByField(S_user, S_email, q.old.email)) \in DOMAIN q.before

\* The keys list("users", pagination, filters) returns, as the backend holds them.
UserListKeys ==
    {getPrefixedKey(entityList(S_users, pg, fl)) : pg \in Paginations, fl \in FilterMaps}

\* C2: when create, update or delete has returned, every cache call of it having found
\* the client connected and been served, the cache holds no key that list("users",
\* pagination, filters) returns, for any pagination and any filters.
ListsInvalidated ==
    \A p \in Procs :
        LET q == procs[p]
        IN (q.kind \in Writes /\ q.pc = "done" /\ q.served) =>
              DOMAIN redis \cap UserListKeys = {}

\* C2 witness: a write has returned, and a paginated list was cached when it began.
ListsInvalidatedWitness ==
    LET q == procs["c1"]
    IN /\ q.kind \in Writes /\ q.pc = "done" /\ q.served
       /\ \E pg \in RepoPaginations \ {NoPagination} :
             getPrefixedKey(entityList(S_users, pg,
                                       Filters(<<FilterStr(S_is_active, S_true)>>)))
                 \in DOMAIN q.before

\* C3: create, update and delete call no cache set, delete or deletePattern before
\* their store write has succeeded; so a call whose store write fails calls none.
WriteBeforeInvalidate ==
    \A p \in Procs :
        LET q == procs[p]
        IN (q.kind \in Writes /\ q.touched) => q.wrote

\* C3 witness: the store write of an update failed while the cache held entries, and
\* the keyspace is as it was when the update began.
WriteBeforeInvalidateWitness ==
    LET q == procs["c1"]
    IN /\ q.kind = "update" /\ q.failedBy = "store"
       /\ DOMAIN redis # {}
       /\ redis = q.before

RaceDone == \A p \in Procs : procs[p].pc \in {"done", "failed"}

\* C4 as claimed: after a write and a read that ran together, an entry is out of date
\* only if the reader read the store before the write and set the key after the
\* writer's invalidation of it was over (its delete, or its deletePattern, had run).
StaleOnlyAfterInvalidation ==
    RaceDone =>
        \A k \in DOMAIN redis :
            Stale(k) => /\ procs["c2"].readWhen = "before"
                        /\ k \in Prefixed(procs["c2"].lateSets)

\* C4 as amended: ... or, for a list key, set the key after the writer's deletePattern
\* had read the keys to delete (KEYS), its DEL still to come; and the entry carries
\* the TTL of its tier.
StaleOnlyAfterInvalidationBegan ==
    RaceDone =>
        \A k \in DOMAIN redis :
            Stale(k) => /\ procs["c2"].readWhen = "before"
                        /\ k \in Prefixed(procs["c2"].lateSets \cup procs["c2"].windowSets)
                        /\ redis[k].ttl \in {CACHE_TTL_SHORT, CACHE_TTL_MEDIUM}

\* C4 witness: both have returned and an out-of-date list is cached, set between the
\* writer's KEYS and its DEL.
StaleOnlyAfterInvalidationBeganWitness ==
    /\ RaceDone
    /\ \E k \in DOMAIN redis : Stale(k) /\ k \in Prefixed(procs["c2"].windowSets)

\* C5: when an update and a read of the same user ran together and the reader read the
\* store after the update's write, no key holds an out-of-date value once both have
\* returned: each holds what the store holds, or nothing.
FreshReadLeavesNoStale ==
    (/\ RaceDone
     /\ procs["c1"].kind = "update"
     /\ procs["c2"].readWhen = "after")
    => \A k \in DOMAIN redis : ~Stale(k)

\* C5 witness: the reader read the store after the write and set its key, and the
\* writer's invalidation then removed it.
FreshReadLeavesNoStaleWitness ==
    /\ RaceDone
    /\ procs["c1"].kind = "update"
    /\ procs["c2"].readWhen = "after"
    /\ procs["c2"].kind = "findById"
    /\ procs["c2"].touched
    /\ getPrefixedKey(ReadKey(procs["c2"])) \notin DOMAIN redis

\* What an operation returns when it does nothing.
ReturnsDefault(call) ==
    CASE call.op = "get" -> call.ret = Null
      [] call.op = "deletePattern" -> call.ret = 0
      [] OTHER -> call.ret = FALSE

\* C6: a cache operation called while the client is absent or not connected returns
\* its default (get null, set, delete, exists and flush false, deletePattern 0),
\* raises nothing, sends nothing to the backend and leaves the keyspace as it was.
DegradedDefaults ==
    (lastCall.op # "none" /\ ~lastCall.available) =>
        /\ ReturnsDefault(lastCall)
        /\ ~lastCall.raised
        /\ ~lastCall.called
        /\ ~lastCall.changed

\* C6 witness: get was called with the client not connected while the backend held
\* keys.
DegradedDefaultsWitness ==
    /\ lastCall.op = "get" /\ ~lastCall.available
    /\ client # "null" /\ ~isConnected
    /\ DOMAIN redis # {}

\* C7: a cache operation whose backend call fails while the client is connected (the
\* call is rejected, the stored string does not parse, the value does not serialize)
\* returns its default and raises nothing, and no repository call ends by an
\* exception of the cache.
FailuresSwallowed ==
    /\ (lastCall.op # "none" /\ lastCall.available /\ lastCall.fault # "ok") =>
          (ReturnsDefault(lastCall) /\ ~lastCall.raised)
    /\ \A p \in Procs : procs[p].failedBy # "cache"

\* C7 witness: the string stored under the key of a get did not parse.
FailuresSwallowedWitness ==
    /\ lastCall.op = "get" /\ lastCall.available /\ lastCall.fault = "badjson"
    /\ lastCall.called
    /\ procs["c1"].pc = "db"

\* C8 as claimed: a read that has returned, the calls being made one at a time,
\* returned what the store of record holds (as JSON carries it).
ReadsMatchStore ==
    \A p \in Procs :
        LET q == procs[p]
        IN (q.kind \in Reads /\ q.pc = "done") =>
              Parse(Stringify(q.ret)) = Parse(Stringify(Answer(q)))

\* C11: when the get of findById, findByEmail or findAll returned a cached value, the
\* method returns exactly that value, and neither queries the store of record nor
\* calls the cache again.
HitReturnsCached ==
    \A p \in Procs :
        LET q == procs[p]
        IN (q.kind \in Reads /\ q.hit # Null) =>
              /\ q.pc = "done"
              /\ q.ret = q.hit
              /\ q.readWhen = "never"
              /\ ~q.touched

\* C11 witness: findById returned a cached user that is not what the store holds: the
\* hit was not checked against the store.
HitReturnsCachedWitness ==
    LET q == procs["c1"]
    IN /\ q.kind = "findById" /\ q.pc = "done" /\ q.hit # Null
       /\ q.ret # Parse(Stringify(Answer(q)))

\* C12: a findById or findByEmail whose get returned nothing queries the store of
\* record; when the store returns a user it calls set with it, and when the store
\* returns none it makes no cache call after the get and returns null.
MissWritesBackFound ==
    \A p \in Procs :
        LET q == procs[p]
        IN (q.kind \in {"findById", "findByEmail"} /\ q.pc = "done" /\ q.hit = Null) =>
              /\ q.readWhen # "never"
              /\ q.ret = q.res
              /\ q.touched <=> q.res # Null

\* C12 witness: findById of a user the store does not hold has returned null, the
\* client being connected, and its key is not in the cache.
MissWritesBackFoundWitness ==
    LET q == procs["c1"]
    IN /\ q.kind = "findById" /\ q.pc = "done" /\ q.hit = Null
       /\ q.res = Null /\ q.ret = Null
       /\ q.served /\ isReady
       /\ getPrefixedKey(ReadKey(q)) \notin DOMAIN redis

\* C13: when a findByEmail that missed and found user u has returned, every cache call
\* of it having been served, both the by-email key and the by-id key of u hold u; and
\* the findById(u.id) that follows it, no entry having expired and the client being
\* connected, returns u (as JSON carries it) from the cache without a query to the
\* store.
FoundByEmailHitsById ==
    \A p \in Procs :
        LET q == procs[p]
        IN /\ (q.kind = "findByEmail" /\ q.pc = "done" /\ q.hit = Null /\ q.res # Null
                  /\ q.served) =>
                 \A key \in {ReadKey(q), entityById(S_user, q.res.u.id)} :
                     /\ getPrefixedKey(key) \in DOMAIN redis
                     /\ redis[getPrefixedKey(key)].data = Stringify(q.res)
                     /\ redis[getPrefixedKey(key)].ttl = CACHE_TTL_MEDIUM
           /\ (q.kind = "findById" /\ q.pc \notin {"idle", "get"} /\ q.served
                  /\ q.cached # Null) =>
                 /\ q.pc = "done"
                 /\ q.ret = Parse(Stringify(q.cached))
                 /\ q.readWhen = "never"

\* C13 witness: findById has returned from the cache the user that a findByEmail
\* before it had found in the store.
FoundByEmailHitsByIdWitness ==
    LET q == procs["c1"]
    IN /\ q.kind = "findById" /\ q.pc = "done" /\ q.served
       /\ q.cached # Null
       /\ q.hit = Parse(Stringify(q.cached))
       /\ getPrefixedKey(entityByField(S_user, S_email, q.cached.u.email)) \in DOMAIN redis

\* The single-entity keys of the users other than id: their by-id keys, and the
\* by-email keys of the emails they have in the store.
OtherUsersKeys(id) ==
    {getPrefixedKey(entityById(S_user, other)) : other \in UserIds \ {id}}
    \cup {getPrefixedKey(entityByField(S_user, S_email, db[other].email)) :
              other \in {o \in UserIds \ {id} : db[o].exists}}

\* C14: during and after update(id, ...) and delete(id), no TTL running out meanwhile,
\* every by-id and by-email key of another user that was cached when the call began is
\* cached with the value it had.
OtherUsersKeysKept ==
    \A p \in Procs :
        LET q == procs[p]
        IN q.kind \in {"update", "delete"} =>
              \A k \in OtherUsersKeys(q.id) \cap DOMAIN q.before :
                  k \in DOMAIN redis /\ redis[k] = q.before[k]

\* C14 witness: an update of user 1 has returned, its deletes executed by the backend,
\* and user 2's by-id and by-email keys are cached as they were when it began.
OtherUsersKeysKeptWitness ==
    LET q == procs["c1"]
    IN /\ q.kind = "update" /\ q.id = U1 /\ q.pc = "done" /\ q.served
       /\ db[U2].exists
       /\ entityById(S_user, U1) \in q.invalidated
       /\ getPrefixedKey(entityById(S_user, U2)) \in DOMAIN q.before
       /\ getPrefixedKey(entityByField(S_user, S_email, db[U2].email)) \in DOMAIN q.before
       /\ OtherUsersKeys(U1) \cap DOMAIN q.before \subseteq DOMAIN redis

\* The list keys of an entity type, and the keys of the other entity types, as the
\* backend holds them.
PrefixedListKeys == [entityType \in PatternTypes |-> Prefixed(ListKeysOf[entityType])]
PrefixedOtherKeys ==
    [entityType \in PatternTypes |->
        Prefixed(UNION {KeysOfType[e] : e \in PatternTypes \ {entityType}})]

\* C15: a deletePattern(pattern(E, "list:*")) that the backend serves leaves no key that
\* list(E, pagination, filters) returns, returns the number of keys it removed, and
\* leaves every key of another entity type as it was.
PatternScope ==
    [][(lastCall'.op = "deletePattern" /\ desc1'.kind = "pattern") =>
          /\ DOMAIN redis' \cap PrefixedListKeys[desc1'.entityType] = {}
          /\ lastCall'.ret = Cardinality(DOMAIN redis \ DOMAIN redis')
          /\ \A k \in DOMAIN redis \cap PrefixedOtherKeys[desc1'.entityType] :
                 k \in DOMAIN redis' /\ redis'[k] = redis[k]]_vars

\* C15 witness: deletePattern("user:list:*") has removed a list of "user" and left a
\* list of "users" cached.
PatternScopeWitness ==
    /\ lastCall.op = "deletePattern" /\ desc1.kind = "pattern"
    /\ desc1.entityType = S_user
    /\ lastCall.ret = 1
    /\ DOMAIN redis \cap PrefixedListKeys[S_users] # {}

\* C16 as claimed: the get of a findById that follows, with no cache command in
\* between, the set of value v under the same key (by a findByEmail, served) returns
\* a value equal to v.
RoundTripEqual ==
    \A p \in Procs :
        LET q == procs[p]
        IN (q.kind = "findById" /\ q.cached # Null /\ q.hit # Null) => q.hit = q.cached

\* C17: connect() called while a client exists, after an earlier call has returned or
\* while it still awaits, makes no second client and registers no further listener:
\* in every reachable state there is at most one client, with its three listeners,
\* and it is the one this.client holds.
OneClient ==
    /\ conn.clients <= 1
    /\ conn.handlers = 3 * conn.clients
    /\ (client = "null") = (conn.clients = 0)

\* C17 witness: connect() was called twice more while the first call awaited its
\* client's connection.
OneClientWitness ==
    /\ conn.pending
    /\ conn.returned >= 2
    /\ conn.clients = 1
    /\ client # "null"

\* C18: with no REDIS_URL set, connect() returns without making a client, isReady()
\* is false in every reachable state, and every cache operation returns its default
\* without a call to the backend.
NoUrlNoCache ==
    ~conn.url =>
        /\ client = "null" /\ conn.clients = 0 /\ ~conn.pending /\ ~conn.dropped
        /\ ~isReady
        /\ redis = <<>>
        /\ lastCall.op # "none" =>
              (ReturnsDefault(lastCall) /\ ~lastCall.called /\ ~lastCall.raised)

\* C18 witness: no REDIS_URL is set, connect() has been called and has returned, and
\* a set that followed has returned false.
NoUrlNoCacheWitness ==
    /\ ~conn.url
    /\ conn.returned > 0
    /\ lastCall.op = "set" /\ lastCall.ret = FALSE

\* The connection has failed and is not back: the latest connect() was rejected, or
\* the client is not connected.
Lost == conn.dropped \/ (client # "null" /\ ~isConnected)

\* C19 as claimed: after a connection error, the rejection of the first connect()
\* included, the client is connected again and isReady() is true, sooner or later,
\* if the backend stays reachable from then on.
Reconnects == (conn.url /\ Lost) ~> (isReady \/ ~conn.up)

\* C20 as claimed: the delays of consecutive failed attempts never exceed the cap,
\* and below the cap they grow exponentially: each is the one before it times a
\* fixed factor, so that the square of a delay is the product of its neighbours.
ExponentialBackoff ==
    /\ \A i \in DOMAIN conn.delays : conn.delays[i] <= RetryCap
    /\ \A i \in 2..(Len(conn.delays) - 1) :
          (conn.delays[i - 1] > 0 /\ conn.delays[i + 1] < RetryCap) =>
              conn.delays[i + 1] * conn.delays[i - 1] = conn.delays[i] * conn.delays[i]

\* C20 amended: the delays of consecutive failed attempts never exceed the cap of
\* 1000 ms, and up to the cap they grow linearly: each is 50 ms more than the one
\* before it.
LinearBackoff ==
    /\ \A i \in DOMAIN conn.delays : conn.delays[i] <= RetryCap
    /\ \A i \in 1..(Len(conn.delays) - 1) :
          conn.delays[i + 1] = Min(conn.delays[i] + RetryStep, RetryCap)

\* C20 witness: the delays have grown up to the cap, and the attempt after that has
\* waited the cap again.
LinearBackoffWitness ==
    \E i \in 2..(Len(conn.delays) - 1) :
        /\ conn.delays[i - 1] < RetryCap
        /\ conn.delays[i] = RetryCap
        /\ conn.delays[i + 1] = RetryCap

\* C21 as claimed: the wait of a cache operation for the answer to its request is
\* bounded: the operation returns before the wait has lasted longer than the bound.
WaitBounded == conn.waited <= MaxWait

\* C22 as claimed: a flush() that the backend has served leaves no key of this
\* namespace and leaves the keys of the other services as they were.
FlushKeepsOthers ==
    (lastCall.op = "flush" /\ lastCall.ret = TRUE) =>
        /\ \A k \in DOMAIN redis : ~GlobMatch(getPrefixedKey(<<"*">>), k)
        /\ \A k \in OtherKeys : k \in DOMAIN redis /\ redis[k] = OtherEntry

\* C23: the operations other than flush send the backend keys and patterns that begin
\* with the namespace string and its colon: a key they write begins with it, and a
\* key of another service is not read, overwritten or deleted by them.
NamespaceKept ==
    [][lastCall'.op # "flush" =>
          /\ \A k \in DOMAIN redis' \ DOMAIN redis : GlobMatch(getPrefixedKey(<<"*">>), k)
          /\ \A k \in OtherKeys \cap DOMAIN redis :
                k \in DOMAIN redis' /\ redis'[k] = redis[k]
          /\ procs'["c1"].hit # Parse(OtherEntry.data)]_vars

\* C23 witness: user 1 of this service was read, cached and deleted, and its keys
\* invalidated, beside the entries the other services hold for their user 1.
NamespaceKeptWitness ==
    /\ procs["c1"].kind = "delete" /\ procs["c1"].pc = "done"
    /\ entityById(S_user, U1) \in procs["c1"].invalidated
    /\ getPrefixedKey(entityById(S_user, U1)) \in DOMAIN procs["c1"].before
    /\ OtherKeys \subseteq DOMAIN redis

\* The keys of the backend that the pattern of invalidateUsersListCache matches.
Matching(store) == {k \in DOMAIN store : GlobMatch(getPrefixedKey(ListPattern), k)}

\* C24: a deletePattern that returns has raised nothing and returns the number of
\* keys it has removed; served by the backend it leaves no key that matches; called
\* with the client not ready, or failing at the backend, it removes nothing and
\* returns 0, as it does when no key matches.
PatternCount ==
    [][(procs["c1"].pc \in {"keys", "del"} /\ procs'["c1"].pc \notin {"keys", "del"}) =>
          /\ lastCall'.op = "deletePattern"
          /\ ~lastCall'.raised /\ procs'["c1"].pc # "failed"
          /\ lastCall'.ret = Cardinality(DOMAIN redis \ DOMAIN redis')
          /\ (lastCall'.available /\ lastCall'.fault = "ok") => Matching(redis') = {}
          /\ (~lastCall'.available \/ lastCall'.fault # "ok") =>
                (lastCall'.ret = 0 /\ redis' = redis)]_vars

\* C24 witness: deletePattern has returned 0 because the backend failed, with a key
\* that matches in the keyspace.
PatternCountWitness ==
    /\ lastCall.op = "deletePattern"
    /\ lastCall.available /\ lastCall.fault = "throw"
    /\ lastCall.ret = 0
    /\ Matching(redis) # {}

\* The keys the database of SpecExpiry can hold.
ExpiryKeys ==
    OtherKeys \cup {getPrefixedKey(ReadKey(c)) : c \in {c \in ConnCalls : c.kind \in Reads}}

\* C25: every entry has an expiry; an entry is removed only by the expiry of its key
\* or by a delete, deletePattern or flush, and is changed only by a set (no get and no
\* exists removes or changes one); and a key that is populated is absent again,
\* sooner or later.
Expiry ==
    /\ [](\A k \in DOMAIN redis : redis[k].ttl > 0)
    /\ [][\A k \in DOMAIN redis :
             /\ k \notin DOMAIN redis' =>
                   \/ lastCall'.op \in {"delete", "deletePattern", "flush"}
                   \/ procs'["c1"].pc = procs["c1"].pc /\ nops' = nops
             /\ (k \in DOMAIN redis' /\ redis'[k] # redis[k]) => lastCall'.op = "set"]_redis
    /\ \A k \in ExpiryKeys : (k \in DOMAIN redis) ~> (k \notin DOMAIN redis)

\* C25 witness: findById has returned user 1 from the store and has cached it, and its
\* key has expired since.
ExpiryWitness ==
    /\ procs["c1"].kind = "findById" /\ procs["c1"].pc = "done"
    /\ procs["c1"].hit = Null /\ procs["c1"].touched /\ procs["c1"].served
    /\ lastCall.op = "set" /\ lastCall.ret = TRUE
    /\ getPrefixedKey(ReadKey(procs["c1"])) \notin DOMAIN redis

\* Only one of page and limit is supplied.
Partial(pagination) == (pagination.page = Undefined) # (pagination.limit = Undefined)

\* C26: the list key of a pagination with only page or only limit is the same on every
\* call, and differs from the key of the same builder for no pagination and for
\* every full pair of page and limit.
PartialKeyDistinct ==
    (desc1.kind = desc2.kind /\ desc1.kind \in {"list", "usersList"}) =>
        /\ desc1 = desc2 => key1 = key2
        /\ (Partial(desc1.pagination) /\ ~Partial(desc2.pagination)) => key1 # key2

\* C27: a repository read writes a list with the short tier and a single user, under
\* its by-id and by-field keys, with the medium tier; a list read writes the key of the
\* page and filters it was asked for and no other.
TierWrites ==
    [][\A k \in DOMAIN redis' :
          (k \notin DOMAIN redis \/ redis'[k] # redis[k]) =>
              LET q == procs["c1"]
                  active == Filters(<<FilterStr(S_is_active, S_true)>>)
              IN /\ q.kind \in Reads /\ q.pc \in {"set", "setById"}
                 /\ q.kind = "findAll" =>
                        /\ k = getPrefixedKey(entityList(S_users, q.pagination, active))
                        /\ redis'[k].ttl = CACHE_TTL_SHORT
                 /\ q.kind = "findById" =>
                        /\ k = getPrefixedKey(entityById(S_user, q.id))
                        /\ redis'[k].ttl = CACHE_TTL_MEDIUM
                 /\ q.kind = "findByEmail" =>
                        /\ k = getPrefixedKey(IF q.pc = "set"
                                              THEN entityByField(S_user, S_email, q.email)
                                              ELSE entityById(S_user, q.res.u.id))
                        /\ redis'[k].ttl = CACHE_TTL_MEDIUM]_redis

\* C27 witness: findAll has returned a page it read from the store, and the key of that
\* page is cached with the short tier.
TierWritesWitness ==
    LET q == procs["c1"]
        k == getPrefixedKey(entityList(S_users, q.pagination,
                                       Filters(<<FilterStr(S_is_active, S_true)>>)))
    IN /\ q.kind = "findAll" /\ q.pc = "done" /\ q.touched
       /\ Truthy(q.pagination.page) /\ Truthy(q.pagination.limit)
       /\ lastCall.op = "set" /\ lastCall.ret = TRUE
       /\ k \in DOMAIN redis /\ redis[k].ttl = CACHE_TTL_SHORT

\* C28 as stated: the self-test reports pass only when set succeeded, get returned the
\* value set, delete removed the key and the key was absent afterwards.
SelfTestStrict ==
    LET q == procs["c2"]
    IN (q.pc = "done" /\ q.ret) =>
          /\ q.setResult /\ q.getResult = testValue(q.timestamp)
          /\ q.deleteResult /\ q.deletedData = Null

\* C28 as amended: the self-test reports pass exactly when set succeeded and get
\* returned the value set; what delete and the get after it return does not change
\* the report.
SelfTestSetGet ==
    LET q == procs["c2"]
    IN q.pc = "done" =>
          (q.ret <=> (q.setResult /\ q.getResult = testValue(q.timestamp)))

\* C28 witness: the self-test has reported pass after a delete that returned false
\* and left the key, which the get after it has read.
SelfTestSetGetWitness ==
    LET q == procs["c2"]
    IN /\ q.pc = "done" /\ q.ret
       /\ ~q.deleteResult /\ q.deletedData = testValue(q.timestamp)
       /\ getPrefixedKey(testKey) \in DOMAIN redis

BeforeWrite(p) ==
    IF db[U1].email = procs[p].data.email THEN procs[Other(p)].data.email
    ELSE SeededDb[U1].email

\* C30: when two updates of one user that both change the email have returned, each has
\* invalidated the by-email key of the email the user had immediately before its own
\* write, and the cache holds no by-email entry of an email the user no longer has.
UpdatesInvalidateOld ==
    (\A p \in Procs : procs[p].pc = "done" /\ procs[p].wrote) =>
        /\ \A p \in Procs :
              entityByField(S_user, S_email, BeforeWrite(p)) \in procs[p].invalidated
        /\ \A e \in UpdateEmails :
              getPrefixedKey(entityByField(S_user, S_email, e)) \in DOMAIN redis =>
                  e = db[U1].email

====
